---- MODULE Spec2Model ----
(***************************************************************************)
(* Model of the mesh readers/writer and of the seam vertex sequence        *)
(* decoder of the MCUT tutorial QuerySeamVerticesSorted.                   *)
(*                                                                         *)
(* Four state machines share the module; each has its own specification:   *)
(*   SpecSeam  the decode loop of main over the flat seam array,           *)
(*   SpecOFF   writeOFF followed by readOFF on the written file,           *)
(*   SpecOBJ   the three passes of readOBJ over one file,                  *)
(*   SpecQuery the engine queries of the two tutorial programs.            *)
(* A specification keeps the variables of the other machines at their      *)
(* idle values.                                                            *)
(***************************************************************************)
EXTENDS Integers, Sequences, FiniteSets, TLC

(***************************************************************************)
(* Bounds                                                                  *)
(***************************************************************************)
\* largest number of seam sequences the engine serialises
MaxSeqs == 2
\* largest number of vertex indices of one seam sequence
MaxSeqLen == 2
\* largest vertex index of a seam sequence
MaxIdx == 2
\* largest value an out-of-bounds read of the seam array returns
MaxGarbage == 1
\* largest number of vertices of a mesh handed to writeOFF
MaxVerts == 1
\* largest number of faces of a mesh handed to writeOFF
MaxFaces == 2
\* largest number of corners of a face handed to writeOFF
MaxFaceSize == 4
\* largest number of edges handed to writeOFF
MaxEdges == 1
\* largest number of lines of a file handed to readOBJ
MaxLines == 4
\* largest number of 'f ' lines of a file handed to readOBJ
MaxFaceLines == 2
\* largest number of corner tokens of an 'f ' line
MaxCorners == 3
\* largest number of tokens strtok finds behind the end of an 'f ' line
MaxTail == 2
\* connected components whose seam array is decoded, one after the other
MaxComponents == 2
\* largest number of elements (vertices, indices, triangles) the engine
\* reports for one query
MaxElements == 2

\* smallest corner count readOFF accepts for a face (if (n < 3))
MinFaceVertexCount == 3
\* number of 1e-6 units in 1.0: the six decimals printed by "%f"
TextUnit == 1000000
\* number of 1e-7 units in 1.0: a coordinate is an integer counting 1e-7,
\* one decimal more than "%f" prints
CoordUnit == 10 * TextUnit

(***************************************************************************)
(* Seam vertex sequence decoder: state                                     *)
(***************************************************************************)
VARIABLES
  seamVertexSequenceArrayFromMCUT, \* the flat array filled by the engine
  seamSource,              \* the records the engine serialised into the array
  seamComplete,            \* TRUE iff the array holds the whole serialisation
  seamBeyond,              \* what the memory behind the end of the array holds
  runningOffset,           \* cursor into the flat array (0-based)
  numSeamVertexSequences,  \* first element of the array
  numSeamVertexSequenceIter, \* loop counter
  seamVertexSequences,     \* decoded list of <<indices, isLoop>>
  seamReadOutside,         \* TRUE once an element outside the array was read
  seamPc,                  \* "idle", "start", "loop", "done", "crashed"
  seamComponent,           \* i, the index of the connected component at hand
  seamPrevious             \* the array and the decoded list of component i - 1

seamVars == <<seamComponent, seamPrevious,
              seamVertexSequenceArrayFromMCUT, seamSource, seamComplete, seamBeyond,
              runningOffset, numSeamVertexSequences, numSeamVertexSequenceIter,
              seamVertexSequences, seamReadOutside, seamPc>>

(***************************************************************************)
(* writeOFF / readOFF: state                                               *)
(***************************************************************************)
VARIABLES
  meshVertices,          \* writeOFF pVertices: flat coordinates, 1e-7 units
  meshFaceVertexIndices, \* writeOFF pFaceVertexIndices
  meshFaceSizes,         \* writeOFF pFaceSizes (<<>> when NULL)
  meshFaceSizesNull,     \* TRUE iff writeOFF gets pFaceSizes = NULL
  meshEdges,             \* writeOFF pEdges: flat pairs
  offFile,               \* the file: a sequence of lines of tokens
  offTruncated,          \* TRUE iff the written file was cut short
  offInserted,           \* TRUE iff a blank/comment line was inserted
  filePos,               \* number of lines of the file consumed by getline
  line,                  \* the getline buffer of readOFF
  numVertices,           \* readOFF *numVertices
  numFaces,              \* readOFF *numFaces
  nedges,                \* readOFF nedges
  pVertices,             \* readOFF *pVertices, the slots written so far
  pFaceSizes,            \* readOFF *pFaceSizes, the slots written so far
  pFaceVertexIndices,    \* readOFF *pFaceVertexIndices, the slots written
  pFaceVertexIndicesCap, \* slots malloc'ed for *pFaceVertexIndices, -1: none
  facesStartOffset,      \* the ftell bookmark
  numFaceIndices,        \* readOFF numFaceIndices
  indexOffset,           \* readOFF indexOffset
  i,                     \* readOFF loop counter
  offError,              \* the message printed before exit(1)
  offWriteHandle,        \* FILE* file of writeOFF: "none", "open", "closed"
  offReadHandle,         \* FILE* file of readOFF: "none", "open", "closed"
  offPc                  \* position of writeOFF/readOFF

offMeshVars == <<meshVertices, meshFaceVertexIndices, meshFaceSizes,
                 meshFaceSizesNull, meshEdges>>
offFileVars == <<offFile, offTruncated, offInserted>>
offReadVars == <<filePos, line, numVertices, numFaces, nedges, pVertices,
                 pFaceSizes, pFaceVertexIndices, pFaceVertexIndicesCap,
                 facesStartOffset, numFaceIndices, indexOffset, i, offError>>
offHandleVars == <<offWriteHandle, offReadHandle>>
offVars == <<offMeshVars, offFileVars, offReadVars, offHandleVars, offPc>>

(***************************************************************************)
(* readOBJ: state                                                          *)
(***************************************************************************)
VARIABLES
  objFile,           \* the file: a sequence of lines
  objEol,            \* "LF" or "CRLF": how the lines of the file end
  passIterator,      \* readOBJ passIterator
  objPos,            \* number of lines getline has returned in this pass
  nFaceIndices,      \* readOBJ nFaceIndices
  nVertices,         \* readOBJ nVertices (of the current pass)
  nNormals,          \* readOBJ nNormals (of the current pass)
  nTexCoords,        \* readOBJ nTexCoords (of the current pass)
  nFaces,            \* readOBJ nFaces (of the current pass)
  faceIndicesCounter, \* readOBJ faceIndicesCounter (of the current pass)
  iterOfFace,        \* final value of iter for each 'f ' line of pass three
  objNumVertices,    \* *numVertices
  objNumNormals,     \* *numNormals
  objNumTexcoords,   \* *numTexcoords
  objNumFaces,       \* *numFaces
  objVertices,       \* *pVertices: [cap, filled], cap = -1: not allocated
  objNormals,        \* *pNormals: [cap, filled]
  objTexCoords,      \* *pTexCoords: [cap, filled]
  objFaceSizes,      \* *pFaceSizes: a slot is <<>> (not written) or <<x>>
  objFaceVertexIndices,         \* *pFaceVertexIndices, slots as above
  objFaceVertexTexCoordIndices, \* *pFaceVertexTexCoordIndices
  objFaceVertexNormalIndices,   \* *pFaceVertexNormalIndices
  objAllocated,      \* the names of the arrays malloc'ed so far
  objWroteOutside,   \* TRUE once a store went outside an allocated array
  objError,          \* the message printed before abort
  objHandle,         \* FILE* file of readOBJ: "none", "open", "closed"
  objPc              \* "idle", "scan", "returned", "aborted", "crashed"

objInputVars == <<objFile, objEol>>
objCountVars == <<nVertices, nNormals, nTexCoords, nFaces, faceIndicesCounter>>
objOutVars == <<objNumVertices, objNumNormals, objNumTexcoords, objNumFaces,
                objVertices, objNormals, objTexCoords, objFaceSizes,
                objFaceVertexIndices, objFaceVertexTexCoordIndices,
                objFaceVertexNormalIndices, objAllocated>>
objVars == <<objInputVars, passIterator, objPos, nFaceIndices, objCountVars,
             iterOfFace, objOutVars, objWroteOutside, objError, objHandle,
             objPc>>

(***************************************************************************)
(* Engine queries of the tutorial programs: state                          *)
(***************************************************************************)
VARIABLES
  qryProgram,        \* "HelloWorld", "QuerySeamVerticesSorted", "none"
  numConnComps,      \* connectedComponentCount / numConnComps
  qryI,              \* the loop variable i over the connected components
  qryKind,           \* position in the program's list of data kinds
  numBytes,          \* the variable numBytes
  qryBuffer,         \* bytes (entries, for the component list) of the
                     \* vector handed to the next fill call
  qryCall,           \* the last call made to the engine
  qryPrevCall,       \* the call made before it
  qryCalls,          \* every call made to the engine so far, in order:
                     \* the function and the result it returned
  qryExit,           \* how the process ended: -1 while it runs, 0 for
                     \* return 0 and exit(0), 1 for exit(1) and
                     \* exit(EXIT_FAILURE), 134 for std::abort()
  qryPc              \* "idle", "create", "info", "dispatch", "count",
                     \* "list", "size", "fill", "release", "returned",
                     \* "exited"

qryVars == <<qryProgram, numConnComps, qryI, qryKind, numBytes, qryBuffer,
             qryCall, qryPrevCall, qryCalls, qryExit, qryPc>>

vars == <<seamVars, offVars, objVars, qryVars>>

\* what the actions of one machine leave alone: the other machines
seamFrame == <<offVars, objVars, qryVars>>
offFrame == <<seamVars, objVars, qryVars>>
objFrame == <<seamVars, offVars, qryVars>>
qryFrame == <<seamVars, offVars, objVars>>

(***************************************************************************)
(* Generic helpers                                                         *)
(***************************************************************************)
\* a function that returns without closing its file
Fclose_Forgotten(handle) == handle

\* fclose(file): the state of the handle afterwards
Fclose(handle) == "closed"

RECURSIVE SeqsUpTo(_, _)
\* all sequences over S of length 0..n
SeqsUpTo(S, n) ==
  IF n = 0 THEN {<<>>}
  ELSE LET shorter == SeqsUpTo(S, n - 1)
       IN  shorter \cup {Append(s, x) : s \in {t \in shorter : Len(t) = n - 1}, x \in S}

RECURSIVE SumSeq(_)
SumSeq(s) == IF s = <<>> THEN 0 ELSE Head(s) + SumSeq(Tail(s))

(***************************************************************************)
(* Seam array layout, as the engine writes it:                             *)
(*   [N, len_1, loop_1, idx_1..., len_2, loop_2, idx_2..., ...]            *)
(* A record is <<indices, isLoop>>.                                        *)
(***************************************************************************)
\* a sequence of n vertex indices, counting up from s
SeamIndices(n, s) == [j \in 1..n |-> (s + j - 1) % (MaxIdx + 1)]
SeamRecords ==
  {<<SeamIndices(n, s), loop>> : n \in 0..MaxSeqLen, s \in {0, MaxIdx}, loop \in {0, 1}}

RECURSIVE SeamBody(_)
SeamBody(recs) ==
  IF recs = <<>> THEN <<>>
  ELSE <<Len(Head(recs)[1]), Head(recs)[2]>> \o Head(recs)[1] \o SeamBody(Tail(recs))

SeamLayout(recs) == <<Len(recs)>> \o SeamBody(recs)

\* SeamRead with the element taken one slot too far
SeamRead_OffByOne(off) ==
  IF off + 1 < Len(seamVertexSequenceArrayFromMCUT)
  THEN {seamVertexSequenceArrayFromMCUT[off + 2]}
  ELSE {seamBeyond}

\* values an element read at 0-based offset off can have: the element when
\* off is inside the array, what the memory behind the array holds when it is
\* outside (out-of-bounds read of std::vector::operator[] / memcpy is
\* undefined; the other outcome is SeamCrash)
SeamRead(off) ==
  IF off < Len(seamVertexSequenceArrayFromMCUT)
  THEN {seamVertexSequenceArrayFromMCUT[off + 1]}
  ELSE {seamBeyond}

RECURSIVE SeamCopy(_, _)
\* results of memcpy of n elements starting at offset off
SeamCopy(off, n) ==
  IF n = 0 THEN {<<>>}
  ELSE {<<x>> \o r : x \in SeamRead(off), r \in SeamCopy(off + 1, n - 1)}

\* before the first connected component there is no earlier decode
NoPrevious == [array |-> <<>>, sequences |-> <<>>, done |-> FALSE]

RECURSIVE Reverse(_)
Reverse(q) == IF q = <<>> THEN <<>> ELSE Append(Reverse(Tail(q)), Head(q))

\* the memory behind the array holds one value in every element; behind an
\* array that holds a whole serialisation it is never read
SeamBeyondValues(complete) == IF complete THEN {0} ELSE 0..MaxGarbage

SeamInit ==
  /\ \E recs \in SeqsUpTo(SeamRecords, MaxSeqs) :
       \E cut \in 0..Len(SeamLayout(recs)) :
         /\ seamVertexSequenceArrayFromMCUT = SubSeq(SeamLayout(recs), 1, cut)
         /\ seamComplete = (cut = Len(SeamLayout(recs)))
         /\ seamSource = IF cut = Len(SeamLayout(recs)) THEN recs ELSE <<>>
         /\ seamBeyond \in SeamBeyondValues(cut = Len(SeamLayout(recs)))
  /\ runningOffset = 0
  /\ numSeamVertexSequences = 0
  /\ numSeamVertexSequenceIter = 0
  /\ seamVertexSequences = <<>>
  /\ seamReadOutside = FALSE
  /\ seamPc = "start"
  /\ seamComponent = 0
  /\ seamPrevious = NoPrevious

SeamIdle ==
  /\ seamVertexSequenceArrayFromMCUT = <<>>
  /\ seamSource = <<>>
  /\ seamComplete = FALSE
  /\ seamBeyond = 0
  /\ runningOffset = 0
  /\ numSeamVertexSequences = 0
  /\ numSeamVertexSequenceIter = 0
  /\ seamVertexSequences = <<>>
  /\ seamReadOutside = FALSE
  /\ seamPc = "idle"
  /\ seamComponent = 0
  /\ seamPrevious = NoPrevious

\* numSeamVertexSequences = seamVertexSequenceArrayFromMCUT[runningOffset++]
SeamReadCount ==
  /\ seamPc = "start"
  /\ \E n \in SeamRead(runningOffset) : numSeamVertexSequences' = n
  /\ seamReadOutside' = (seamReadOutside
                         \/ runningOffset >= Len(seamVertexSequenceArrayFromMCUT))
  /\ runningOffset' = runningOffset + 1
  /\ seamPc' = "loop"
  /\ UNCHANGED <<seamComponent, seamPrevious>>
  /\ UNCHANGED <<seamVertexSequenceArrayFromMCUT, seamSource, seamComplete, seamBeyond,
                 numSeamVertexSequenceIter, seamVertexSequences>>
  /\ UNCHANGED seamFrame

\* one iteration of the for loop: push_back, read the size, resize, read the
\* flag, memcpy the indices, advance the cursor
SeamDecodeSequence ==
  /\ seamPc = "loop"
  /\ numSeamVertexSequenceIter < numSeamVertexSequences
  /\ \E size \in SeamRead(runningOffset) :
       \E isLoop \in SeamRead(runningOffset + 1) :
         \E indices \in SeamCopy(runningOffset + 2, size) :
           /\ seamVertexSequences' = Append(seamVertexSequences, <<indices, isLoop>>)
           /\ runningOffset' = runningOffset + 2 + size
           /\ seamReadOutside' =
                (seamReadOutside
                 \/ runningOffset + 1 >= Len(seamVertexSequenceArrayFromMCUT)
                 \/ runningOffset + 2 + size > Len(seamVertexSequenceArrayFromMCUT))
  /\ numSeamVertexSequenceIter' = numSeamVertexSequenceIter + 1
  /\ UNCHANGED <<seamComponent, seamPrevious>>
  /\ UNCHANGED <<seamVertexSequenceArrayFromMCUT, seamSource, seamComplete, seamBeyond,
                 numSeamVertexSequences, seamPc>>
  /\ UNCHANGED seamFrame

\* the loop condition fails: decoding is over
SeamLoopExit ==
  /\ seamPc = "loop"
  /\ numSeamVertexSequenceIter >= numSeamVertexSequences
  /\ seamPc' = "done"
  /\ UNCHANGED <<seamComponent, seamPrevious>>
  /\ UNCHANGED <<seamVertexSequenceArrayFromMCUT, seamSource, seamComplete, seamBeyond,
                 runningOffset, numSeamVertexSequences,
                 numSeamVertexSequenceIter, seamVertexSequences, seamReadOutside>>
  /\ UNCHANGED seamFrame

\* the other outcome of a read outside the array: the process is killed
SeamCrash ==
  /\ \/ seamPc = "start" /\ runningOffset >= Len(seamVertexSequenceArrayFromMCUT)
     \/ /\ seamPc = "loop"
        /\ numSeamVertexSequenceIter < numSeamVertexSequences
        /\ \E size \in SeamRead(runningOffset) :
             runningOffset + 2 + size > Len(seamVertexSequenceArrayFromMCUT)
  /\ seamReadOutside' = TRUE
  /\ seamPc' = "crashed"
  /\ UNCHANGED <<seamComponent, seamPrevious>>
  /\ UNCHANGED <<seamVertexSequenceArrayFromMCUT, seamSource, seamComplete, seamBeyond,
                 runningOffset, numSeamVertexSequences,
                 numSeamVertexSequenceIter, seamVertexSequences>>
  /\ UNCHANGED seamFrame

\* the next iteration of the loop over the connected components: the engine
\* fills a new array, seamVertexSequences and runningOffset are constructed
\* anew, in memory of its own.  The array of the next component is the same
\* array again or, after a whole serialisation, the serialisation of the
\* same records in reverse order.
SeamNextComponent ==
  /\ seamPc = "done"
  /\ seamComponent + 1 < MaxComponents
  /\ seamComponent' = seamComponent + 1
  /\ seamPrevious' = [array |-> seamVertexSequenceArrayFromMCUT,
                      sequences |-> seamVertexSequences, done |-> TRUE]
  /\ \/ /\ UNCHANGED <<seamVertexSequenceArrayFromMCUT, seamSource, seamComplete>>
        /\ seamBeyond' \in SeamBeyondValues(seamComplete)
     \/ /\ seamComplete
        /\ seamVertexSequenceArrayFromMCUT' = SeamLayout(Reverse(seamSource))
        /\ seamSource' = Reverse(seamSource)
        /\ UNCHANGED <<seamComplete, seamBeyond>>
  /\ runningOffset' = 0
  /\ numSeamVertexSequences' = 0
  /\ numSeamVertexSequenceIter' = 0
  /\ seamVertexSequences' = <<>>
  /\ seamReadOutside' = FALSE
  /\ seamPc' = "start"
  /\ UNCHANGED seamFrame

SeamNext ==
  \/ SeamReadCount
  \/ SeamDecodeSequence
  \/ SeamLoopExit
  \/ SeamCrash
  \/ SeamNextComponent

(***************************************************************************)
(* Text of an OFF file.  A line is a sequence of tokens; a token is        *)
(*   k = "d": an integer as "%d"/"%u" prints it, v its value,              *)
(*   k = "f": a number as "%f" prints it, v its value in 1e-6 units,       *)
(*   k = "w": the word OFF,  k = "#": a comment starting with '#',         *)
(* and sp is the number of spaces written before the token.  A blank line  *)
(* is <<>>.  Every line of the file ends with a newline.                   *)
(***************************************************************************)
Tok(k, v, sp) == [k |-> k, v |-> v, sp |-> sp]

\* the buffer of getline before the first call: char* line = NULL
NoLine == <<Tok("NULL", 0, 0)>>
BlankLine == <<>>
CommentLine == <<Tok("#", 0, 0)>>

\* fprintf "%f" of a non-negative double: six decimals, rounded
FormatF(c, sp) == Tok("f", (c + 5) \div 10, sp)
\* fprintf "%d" / "%u" of a small non-negative integer
FormatD(x, sp) == Tok("d", x, sp)

\* sscanf "%d" at the start of a token: <<value>> or <<>> when it fails;
\* on a "%f" text it converts the digits before the '.'
ScanD(tok) ==
  IF tok.k = "d" THEN <<tok.v>>
  ELSE IF tok.k = "f" THEN <<tok.v \div TextUnit>>
  ELSE <<>>

\* sscanf "%lf" at the start of a token
ScanLf(tok) ==
  IF tok.k = "d" THEN <<tok.v * CoordUnit>>
  ELSE IF tok.k = "f" THEN <<tok.v * 10>>
  ELSE <<>>

RECURSIVE ScanInts(_, _)
\* sscanf(l, "%d %d ...") with n directives: the values converted, in order;
\* conversion stops at the first token that is not an integer text (after the
\* integer part of a "%f" text the next directive meets the '.')
ScanInts(l, n) ==
  IF n = 0 \/ l = <<>> \/ ScanD(Head(l)) = <<>> THEN <<>>
  ELSE IF Head(l).k = "f" THEN ScanD(Head(l))
  ELSE ScanD(Head(l)) \o ScanInts(Tail(l), n - 1)

RECURSIVE ScanDoubles(_, _)
\* sscanf(l, "%lf %lf ...") with n directives
ScanDoubles(l, n) ==
  IF n = 0 \/ l = <<>> \/ ScanLf(Head(l)) = <<>> THEN <<>>
  ELSE ScanLf(Head(l)) \o ScanDoubles(Tail(l), n - 1)

RECURSIVE Fill(_, _, _)
\* the n output variables of a sscanf that converted vals: the converted
\* values, then any value of G for each variable left uninitialised
Fill(vals, n, G) ==
  IF Len(vals) >= n THEN {SubSeq(vals, 1, n)}
  ELSE UNION {Fill(Append(vals, g), n, G) : g \in G}

\* values of an uninitialised int n / int val / double x
GarbageInts == {MaxGarbage, MaxGarbage + MinFaceVertexCount}

RECURSIVE SpaceSlots(_, _)
\* strstr(lineBufShifted, " ") + 1, repeated: each call moves past one space,
\* and the sscanf that follows converts the token after that space.  The
\* result lists, for each space of the line in order, the index of the token
\* that follows it.
SpaceSlots(l, t) ==
  IF t > Len(l) THEN <<>>
  ELSE [k \in 1..l[t].sp |-> t] \o SpaceSlots(l, t + 1)

RECURSIVE CornerValues(_, _, _)
\* the n values of val of the second face loop: val of corner j is converted
\* by sscanf "%d" from the token after the j-th space, and is left
\* uninitialised when the conversion fails
CornerValues(l, slots, n) ==
  IF n = 0 THEN {<<>>}
  ELSE {r \o v : r \in CornerValues(l, slots, n - 1),
                 v \in Fill(ScanD(l[slots[n]]), 1, GarbageInts)}

\* strlen(*line) > 1 && (*line)[0] != '#'
IsReal(l) == l # BlankLine /\ l # NoLine /\ l[1].k # "#"

\* strstr(line, "OFF") != NULL
HasOFF(l) == \E t \in 1..Len(l) : l[t].k = "w"

RECURSIVE NextRealLine(_, _)
\* index of the first line after pos that readLine accepts, 0 if none
NextRealLine(file, pos) ==
  IF pos >= Len(file) THEN 0
  ELSE IF IsReal(file[pos + 1]) THEN pos + 1
  ELSE NextRealLine(file, pos + 1)

\* readLine: while (getline(...)) { if (accepted) return true; } return false;
\* getline returns -1 at the end of the file, which is not 0, so the loop
\* goes on with the buffer as the last successful getline left it: readLine
\* returns true with that stale line when it is an accepted line, and never
\* returns when it is blank or a comment ("hang").  With no line ever read
\* the buffer is NULL or uninitialised ("ub").  `return false` is never
\* reached.
ReadLine(file, pos, buf) ==
  LET p == NextRealLine(file, pos)
      last == IF pos < Len(file) THEN file[Len(file)] ELSE buf
  IN  IF p > 0 THEN [st |-> "ok", line |-> file[p], pos |-> p]
      ELSE IF last = NoLine THEN [st |-> "ub", line |-> last, pos |-> Len(file)]
      ELSE IF IsReal(last) THEN [st |-> "ok", line |-> last, pos |-> Len(file)]
      ELSE [st |-> "hang", line |-> last, pos |-> Len(file)]

(***************************************************************************)
(* writeOFF                                                                *)
(***************************************************************************)
\* faceVertexCount of face f (1-based): pFaceSizes[i], or 3 when NULL
FaceVertexCount(f) ==
  IF meshFaceSizesNull THEN 3 ELSE meshFaceSizes[f]

\* FaceBaseOffset without faceBaseOffset += faceVertexCount
FaceBaseOffset_NotAdvanced(f) == 0

RECURSIVE FaceBaseOffset(_)
\* faceBaseOffset when face f (1-based) is written
FaceBaseOffset(f) ==
  IF f = 1 THEN 0 ELSE FaceBaseOffset(f - 1) + FaceVertexCount(f - 1)

MeshNumVertices == Len(meshVertices) \div 3
MeshNumFaces ==
  IF meshFaceSizesNull THEN Len(meshFaceVertexIndices) \div 3
  ELSE Len(meshFaceSizes)
MeshNumEdges == Len(meshEdges) \div 2

WrittenHeader == <<Tok("w", 0, 0)>>
WrittenCounts ==
  <<FormatD(MeshNumVertices, 0), FormatD(MeshNumFaces, 1), FormatD(MeshNumEdges, 1)>>
WrittenVertex(v) ==
  <<FormatF(meshVertices[3 * (v - 1) + 1], 0),
    FormatF(meshVertices[3 * (v - 1) + 2], 1),
    FormatF(meshVertices[3 * (v - 1) + 3], 1)>>
\* a face line without its leading corner count
WrittenFace_NoCount(f) ==
  [j \in 1..FaceVertexCount(f) |->
     FormatD(meshFaceVertexIndices[FaceBaseOffset(f) + j], 1)]

WrittenFace(f) ==
  <<FormatD(FaceVertexCount(f), 0)>>
  \o [j \in 1..FaceVertexCount(f) |->
        FormatD(meshFaceVertexIndices[FaceBaseOffset(f) + j], 1)]
WrittenEdge(e) ==
  <<FormatD(meshEdges[2 * (e - 1) + 1], 0), FormatD(meshEdges[2 * (e - 1) + 2], 1)>>

WrittenFile ==
  <<WrittenHeader, WrittenCounts>>
  \o [v \in 1..MeshNumVertices |-> WrittenVertex(v)]
  \o [f \in 1..MeshNumFaces |-> WrittenFace(f)]
  \o [e \in 1..MeshNumEdges |-> WrittenEdge(e)]

(***************************************************************************)
(* Meshes handed to writeOFF                                               *)
(***************************************************************************)
\* (3.0, 0.0, 1.0) has at most six decimals; (0.1234567, 2.0, 0.0000001)
\* has not
VertexSamples ==
  {<<3 * CoordUnit, 0, CoordUnit>>, <<1234567, 2 * CoordUnit, 1>>}

\* a face of k corners whose indices start at s
FaceSample(k, s) == [j \in 1..k |-> (s + j - 1) % (MaxIdx + 1)]
\* the faces of a mesh: up to MaxFaces faces of 2 to MaxFaceSize corners;
\* the indices of the first face start at 0 or at MaxIdx, those of each
\* later face one further
FaceLists ==
  {[f \in 1..Len(ks) |-> FaceSample(ks[f], s + f - 1)] :
     ks \in SeqsUpTo((MinFaceVertexCount - 1)..MaxFaceSize, MaxFaces),
     s \in {0, MaxIdx}}

RECURSIVE Flatten(_)
Flatten(ss) == IF ss = <<>> THEN <<>> ELSE Head(ss) \o Flatten(Tail(ss))

OffInit ==
  /\ \E vs \in SeqsUpTo(VertexSamples, MaxVerts) : meshVertices = Flatten(vs)
  /\ \E fs \in FaceLists :
       /\ meshFaceVertexIndices = Flatten(fs)
       /\ \E null \in {b \in BOOLEAN : b => \A f \in 1..Len(fs) : Len(fs[f]) = 3} :
            /\ meshFaceSizesNull = null
            /\ meshFaceSizes = IF null THEN <<>> ELSE [f \in 1..Len(fs) |-> Len(fs[f])]
  /\ \E ne \in {0, MaxEdges} : meshEdges = Flatten([e \in 1..ne |-> <<e - 1, e>>])
  /\ offFile = <<>>
  /\ offTruncated = FALSE
  /\ offInserted = FALSE
  /\ filePos = 0
  /\ line = NoLine
  /\ numVertices = 0
  /\ numFaces = 0
  /\ nedges = 0
  /\ pVertices = <<>>
  /\ pFaceSizes = <<>>
  /\ pFaceVertexIndices = <<>>
  /\ pFaceVertexIndicesCap = -1
  /\ facesStartOffset = 0
  /\ numFaceIndices = 0
  /\ indexOffset = 0
  /\ i = 0
  /\ offError = ""
  /\ offWriteHandle = "none"
  /\ offReadHandle = "none"
  /\ offPc = "init"

OffIdle ==
  /\ meshVertices = <<>>
  /\ meshFaceVertexIndices = <<>>
  /\ meshFaceSizes = <<>>
  /\ meshFaceSizesNull = FALSE
  /\ meshEdges = <<>>
  /\ offFile = <<>>
  /\ offTruncated = FALSE
  /\ offInserted = FALSE
  /\ filePos = 0
  /\ line = NoLine
  /\ numVertices = 0
  /\ numFaces = 0
  /\ nedges = 0
  /\ pVertices = <<>>
  /\ pFaceSizes = <<>>
  /\ pFaceVertexIndices = <<>>
  /\ pFaceVertexIndicesCap = -1
  /\ facesStartOffset = 0
  /\ numFaceIndices = 0
  /\ indexOffset = 0
  /\ i = 0
  /\ offError = ""
  /\ offWriteHandle = "none"
  /\ offReadHandle = "none"
  /\ offPc = "idle"

\* writeOFF, from fopen to fclose and return
WriteOFF ==
  /\ offPc = "init"
  /\ offFile' = WrittenFile
  /\ offWriteHandle' = Fclose("open")
  /\ offPc' = "written"
  /\ UNCHANGED <<offMeshVars, offTruncated, offInserted, offReadVars>>
  /\ UNCHANGED offReadHandle
  /\ UNCHANGED offFrame

\* TRUE iff no token of the file has more than one space before it
SingleSpaced(file) ==
  \A p \in 1..Len(file) : \A t \in 1..Len(file[p]) : file[p][t].sp <= 1

\* the file is cut after its first k lines before it is read
OffTruncate ==
  /\ offPc = "written"
  /\ ~offTruncated /\ ~offInserted
  /\ SingleSpaced(offFile)
  /\ \E k \in 0..(Len(offFile) - 1) : offFile' = SubSeq(offFile, 1, k)
  /\ offTruncated' = TRUE
  /\ UNCHANGED <<offMeshVars, offInserted, offReadVars, offPc>>
  /\ UNCHANGED offHandleVars
  /\ UNCHANGED offFrame

\* a blank or comment line is put into the file before it is read: anywhere
\* in the file as written, at the end of a file that was cut
OffInsert ==
  /\ offPc = "written"
  /\ ~offInserted
  /\ SingleSpaced(offFile)
  /\ \E p \in (IF offTruncated THEN Len(offFile) ELSE 0)..Len(offFile) :
       \E l \in {BlankLine, CommentLine} :
         offFile' = SubSeq(offFile, 1, p) \o <<l>> \o SubSeq(offFile, p + 1, Len(offFile))
  /\ offInserted' = TRUE
  /\ UNCHANGED <<offMeshVars, offTruncated, offReadVars, offPc>>
  /\ UNCHANGED offHandleVars
  /\ UNCHANGED offFrame

\* a second space is put before the first or the last corner index of a
\* face line before the file is read
OffRespace ==
  /\ offPc = "written"
  /\ ~offTruncated /\ ~offInserted
  /\ SingleSpaced(offFile)
  /\ \E f \in 1..MeshNumFaces :
       LET p == 2 + MeshNumVertices + f
       IN  \E t \in {2, Len(offFile[p])} :
             /\ t >= 2
             /\ offFile' = [offFile EXCEPT ![p][t].sp = 2]
  /\ UNCHANGED <<offMeshVars, offTruncated, offInserted, offReadVars, offPc>>
  /\ UNCHANGED offHandleVars
  /\ UNCHANGED offFrame

(***************************************************************************)
(* readOFF                                                                 *)
(***************************************************************************)
\* a face loop that runs its body before it tests its condition
MoreFaces_BodyFirst == i < numFaces \/ i = 0

\* the condition of the two face loops: i < (int)(*numFaces)
MoreFaces == i < numFaces

\* FaceSizeInvalid with the threshold one too low
FaceSizeInvalid_Below2(n) == n < MinFaceVertexCount - 1

\* if (n < 3) of the first face loop
FaceSizeInvalid(n) == n < MinFaceVertexCount

\* readOFF stops: exit(1) after a message ("exited"), killed ("crashed"), or
\* caught in the loop of readLine ("hung")
OffStop(pc, err) ==
  /\ offPc' = pc
  /\ offError' = err
  /\ UNCHANGED <<filePos, line, numVertices, numFaces, nedges, pVertices,
                 pFaceSizes, pFaceVertexIndices, pFaceVertexIndicesCap,
                 facesStartOffset, numFaceIndices, indexOffset, i>>

\* fopen, then the header line: readLine, strstr(line, "OFF")
ReadOFFHeader ==
  /\ offPc = "written"
  /\ LET r == ReadLine(offFile, filePos, line)
     IN  IF r.st = "ub"
         THEN \/ OffStop("crashed", offError)
              \/ OffStop("hung", offError)
              \/ OffStop("exited", "error: unrecognised .off file header")
         ELSE IF r.st = "hang" THEN OffStop("hung", offError)
         ELSE IF ~HasOFF(r.line)
         THEN OffStop("exited", "error: unrecognised .off file header")
         ELSE /\ line' = r.line
              /\ filePos' = r.pos
              /\ offPc' = "counts"
              /\ UNCHANGED <<numVertices, numFaces, nedges, pVertices,
                             pFaceSizes, pFaceVertexIndices, pFaceVertexIndicesCap,
                             facesStartOffset, numFaceIndices, indexOffset, i,
                             offError>>
  /\ UNCHANGED <<offMeshVars, offFileVars>>
  /\ offReadHandle' = "open"
  /\ UNCHANGED offWriteHandle
  /\ UNCHANGED offFrame

\* the element-count line: readLine, sscanf "%d %d %d", the two mallocs.
\* A variable sscanf does not convert keeps its value (0, set by main).
ReadOFFCounts ==
  /\ offPc = "counts"
  /\ LET r == ReadLine(offFile, filePos, line)
         vals == ScanInts(r.line, 3)
     IN  IF r.st # "ok" THEN OffStop("hung", offError)
         ELSE /\ line' = r.line
              /\ filePos' = r.pos
              /\ numVertices' = IF Len(vals) >= 1 THEN vals[1] ELSE numVertices
              /\ numFaces' = IF Len(vals) >= 2 THEN vals[2] ELSE numFaces
              /\ nedges' = IF Len(vals) >= 3 THEN vals[3] ELSE nedges
              /\ i' = 0
              /\ offPc' = "vertices"
              /\ UNCHANGED <<pVertices, pFaceSizes, pFaceVertexIndices,
                             pFaceVertexIndicesCap, facesStartOffset,
                             numFaceIndices, indexOffset, offError>>
  /\ UNCHANGED <<offMeshVars, offFileVars>>
  /\ UNCHANGED offHandleVars
  /\ UNCHANGED offFrame

\* one iteration of the vertex loop: readLine, sscanf "%lf %lf %lf", 3 stores
ReadOFFVertex ==
  /\ offPc = "vertices"
  /\ i < numVertices
  /\ LET r == ReadLine(offFile, filePos, line)
     IN  IF r.st # "ok" THEN OffStop("hung", offError)
         ELSE /\ line' = r.line
              /\ filePos' = r.pos
              /\ \E xyz \in Fill(ScanDoubles(r.line, 3), 3, GarbageInts) :
                   pVertices' = pVertices \o xyz
              /\ i' = i + 1
              /\ UNCHANGED <<numVertices, numFaces, nedges, pFaceSizes,
                             pFaceVertexIndices, pFaceVertexIndicesCap,
                             facesStartOffset, numFaceIndices, indexOffset,
                             offError, offPc>>
  /\ UNCHANGED <<offMeshVars, offFileVars>>
  /\ UNCHANGED offHandleVars
  /\ UNCHANGED offFrame

\* end of the vertex loop: facesStartOffset = ftell(file)
ReadOFFBookmark ==
  /\ offPc = "vertices"
  /\ i >= numVertices
  /\ facesStartOffset' = filePos
  /\ numFaceIndices' = 0
  /\ i' = 0
  /\ offPc' = "faces1"
  /\ UNCHANGED <<filePos, line, numVertices, numFaces, nedges, pVertices,
                 pFaceSizes, pFaceVertexIndices, pFaceVertexIndicesCap,
                 indexOffset, offError>>
  /\ UNCHANGED <<offMeshVars, offFileVars>>
  /\ UNCHANGED offHandleVars
  /\ UNCHANGED offFrame

\* one iteration of the first face loop: readLine, sscanf "%d", the check
\* n < 3, the store of the face size
ReadOFFFaceSize ==
  /\ offPc = "faces1"
  /\ MoreFaces
  /\ LET r == ReadLine(offFile, filePos, line)
     IN  IF r.st # "ok" THEN OffStop("hung", offError)
         ELSE \E nn \in Fill(ScanInts(r.line, 1), 1, GarbageInts) :
                LET n == nn[1]
                IN  IF FaceSizeInvalid(n)
                    THEN OffStop("exited", "error: invalid vertex count in file")
                    ELSE /\ line' = r.line
                         /\ filePos' = r.pos
                         /\ pFaceSizes' = Append(pFaceSizes, n)
                         /\ numFaceIndices' = numFaceIndices + n
                         /\ i' = i + 1
                         /\ UNCHANGED <<numVertices, numFaces, nedges, pVertices,
                                        pFaceVertexIndices, pFaceVertexIndicesCap,
                                        facesStartOffset, indexOffset, offError,
                                        offPc>>
  /\ UNCHANGED <<offMeshVars, offFileVars>>
  /\ UNCHANGED offHandleVars
  /\ UNCHANGED offFrame

\* ReadOFFSeek with the array sized by the number of faces
ReadOFFSeek_SizedByFaces ==
  /\ offPc = "faces1"
  /\ ~MoreFaces
  /\ pFaceVertexIndicesCap' = numFaces
  /\ filePos' = facesStartOffset
  /\ indexOffset' = 0
  /\ i' = 0
  /\ offPc' = "faces2"
  /\ UNCHANGED <<line, numVertices, numFaces, nedges, pVertices, pFaceSizes,
                 pFaceVertexIndices, facesStartOffset, numFaceIndices, offError>>
  /\ UNCHANGED <<offMeshVars, offFileVars>>
  /\ UNCHANGED offHandleVars
  /\ UNCHANGED offFrame

\* end of the first face loop: malloc of the corner-index array, fseek back
\* to the bookmark
ReadOFFSeek ==
  /\ offPc = "faces1"
  /\ ~MoreFaces
  /\ pFaceVertexIndicesCap' = numFaceIndices
  /\ filePos' = facesStartOffset
  /\ indexOffset' = 0
  /\ i' = 0
  /\ offPc' = "faces2"
  /\ UNCHANGED <<line, numVertices, numFaces, nedges, pVertices, pFaceSizes,
                 pFaceVertexIndices, facesStartOffset, numFaceIndices, offError>>
  /\ UNCHANGED <<offMeshVars, offFileVars>>
  /\ UNCHANGED offHandleVars
  /\ UNCHANGED offFrame

\* one iteration of the second face loop: readLine, sscanf "%d", then n
\* times strstr(" ") + 1, sscanf "%d" and the store at indexOffset + j.
\* When the line has fewer than n spaces strstr returns NULL and the sscanf
\* reads address 1: the process is killed.
ReadOFFFaceIndices ==
  /\ offPc = "faces2"
  /\ MoreFaces
  /\ LET r == ReadLine(offFile, filePos, line)
         slots == SpaceSlots(r.line, 1)
     IN  IF r.st # "ok" THEN OffStop("hung", offError)
         ELSE \E nn \in Fill(ScanInts(r.line, 1), 1, GarbageInts) :
                LET n == nn[1]
                IN  IF n > Len(slots)
                    THEN OffStop("crashed", offError)
                    ELSE /\ line' = r.line
                         /\ filePos' = r.pos
                         /\ \E vals \in CornerValues(r.line, slots, n) :
                              pFaceVertexIndices' = pFaceVertexIndices \o vals
                         /\ indexOffset' = indexOffset + n
                         /\ i' = i + 1
                         /\ UNCHANGED <<numVertices, numFaces, nedges, pVertices,
                                        pFaceSizes, pFaceVertexIndicesCap,
                                        facesStartOffset, numFaceIndices,
                                        offError, offPc>>
  /\ UNCHANGED <<offMeshVars, offFileVars>>
  /\ UNCHANGED offHandleVars
  /\ UNCHANGED offFrame

\* end of the second face loop: free(line), fclose(file), return
ReadOFFReturn ==
  /\ offPc = "faces2"
  /\ ~MoreFaces
  /\ offPc' = "returned"
  /\ UNCHANGED <<offMeshVars, offFileVars, offReadVars>>
  /\ offReadHandle' = Fclose(offReadHandle)
  /\ UNCHANGED offWriteHandle
  /\ UNCHANGED offFrame

OffNext ==
  \/ WriteOFF
  \/ OffTruncate
  \/ OffInsert
  \/ OffRespace
  \/ ReadOFFHeader
  \/ ReadOFFCounts
  \/ ReadOFFVertex
  \/ ReadOFFBookmark
  \/ ReadOFFFaceSize
  \/ ReadOFFSeek
  \/ ReadOFFFaceIndices
  \/ ReadOFFReturn

(***************************************************************************)
(* Text of an OBJ file.  A line is a record: cmd is what the line starts   *)
(* with ("v" for 'v ', "vn" for 'vn ', "vt" for 'vt ', "f" for 'f ', "#"   *)
(* for a comment, "blank" for an empty line, "other" for anything else),   *)
(* fields is the number of numeric fields that follow the command, and     *)
(* corners is the sequence of the space-separated tokens after 'f '.  A    *)
(* corner token is the sequence of its '/'-separated numbers: <<v>> for    *)
(* "v", <<v, x>> for "v/x" and "v//x", <<v, t, n>> for "v/t/n".            *)
(***************************************************************************)
ObjLine(cmd, fields, corners) == [cmd |-> cmd, fields |-> fields, corners |-> corners]

ObjV == ObjLine("v", 3, <<>>)
ObjVn == ObjLine("vn", 3, <<>>)
ObjVt == ObjLine("vt", 2, <<>>)
ObjComment == ObjLine("#", 0, <<>>)
ObjUnknown == ObjLine("other", 0, <<>>)
ObjBlank == ObjLine("blank", 0, <<>>)

\* the j-th corner of a face line, written with form numbers
ObjCorner(j, form) ==
  SubSeq(<<j, (j % MaxCorners) + 1, ((j + 1) % MaxCorners) + 1>>, 1, form)
\* the line "f c1 ... ck"
ObjFace(k, form) == ObjLine("f", 0, [j \in 1..k |-> ObjCorner(j, form)])

\* a run of attribute lines: a 'v ' lines, b 'vn ' lines, c 'vt ' lines and
\* d lines that are skipped: comments, unrecognised commands and empty
\* lines in turn
ObjBlock(a, b, c, d) ==
  [k \in 1..a |-> ObjV] \o [k \in 1..b |-> ObjVn] \o [k \in 1..c |-> ObjVt]
  \o [k \in 1..d |-> IF k % 3 = 1 THEN ObjComment
                      ELSE IF k % 3 = 2 THEN ObjUnknown ELSE ObjBlank]
ObjBlocks(n) ==
  {ObjBlock(q[1], q[2], q[3], q[4]) :
     q \in {r \in (0..n) \X (0..n) \X (0..n) \X (0..n) : r[1] + r[2] + r[3] + r[4] <= n}}

\* the files read: attribute lines, then up to MaxFaceLines 'f ' lines of
\* 0, MaxCorners - 1 or MaxCorners corners, all in one form, then attribute lines
\* again; at most MaxLines lines
ObjFaceArities == {0, MaxCorners - 1, MaxCorners}
ObjFaceRuns == UNION {SeqsUpTo({ObjFace(k, form) : k \in ObjFaceArities}, MaxFaceLines) :
                        form \in 1..3}
ObjFiles ==
  UNION {UNION {{pre \o run \o post : post \in ObjBlocks(MaxLines - Len(run) - Len(pre))} :
                  pre \in ObjBlocks(MaxLines - Len(run))} :
           run \in {r \in ObjFaceRuns : Len(r) <= MaxLines}}

\* the line l with delta numeric fields more
ObjRefield(l, delta) == [l EXCEPT !.fields = @ + delta]

\* files with one 'v ', 'vn ' or 'vt ' line that has a numeric field too few
\* or too many, followed by one face line
ObjFieldFiles ==
  UNION {{[b EXCEPT ![k] = ObjRefield(b[k], delta)] \o <<ObjFace(MaxCorners, 1)>> :
            k \in 1..Len(b), delta \in {-1, 1}} :
           b \in {c \in ObjBlocks(MaxLines - 1) :
                    c # <<>> /\ \A k \in 1..Len(c) : c[k].cmd \in {"v", "vn", "vt"}}}

\* sscanf that converts whatever its format asks for
ScanFields_All(l, n) == n

\* the return value of sscanf(lineBuf + 2, "%lf ... %lf") with n conversions
\* in the format: the fields converted, at most n
ScanFields(l, n) == IF l.fields < n THEN l.fields ELSE n

\* a line is taken for a vertex line when it begins with 'v' alone
ObjFileCmdType_AnyV(l) ==
  IF l.cmd = "blank" \/ l.cmd = "#" THEN "SKIPPED"
  ELSE IF l.cmd \in {"v", "vn", "vt"} THEN "VERTEX"
  ELSE IF l.cmd = "f" THEN "FACE"
  ELSE "UNKNOWN"

\* a line is taken for a face line when it begins with 'f', whatever
\* follows
ObjFileCmdType_AnyF(l) ==
  IF l.cmd = "blank" \/ l.cmd = "#" THEN "SKIPPED"
  ELSE IF l.cmd = "v" THEN "VERTEX"
  ELSE IF l.cmd = "vn" THEN "NORMAL"
  ELSE IF l.cmd = "vt" THEN "TEXCOORD"
  ELSE "FACE"

\* lineIsEmpty, lineIsComment and the if-chain that sets lineCmdType
ObjFileCmdType(l) ==
  IF l.cmd = "blank" \/ l.cmd = "#" THEN "SKIPPED"
  ELSE IF l.cmd = "v" THEN "VERTEX"
  ELSE IF l.cmd = "vn" THEN "NORMAL"
  ELSE IF l.cmd = "vt" THEN "TEXCOORD"
  ELSE IF l.cmd = "f" THEN "FACE"
  ELSE "UNKNOWN"

\* the index stored as written, 1-based
StoredIndex_OneBased(val) == val

\* (uint32_t)(val - 1)
StoredIndex(val) == val - 1

\* the check of iter against faceVertexCount left out
CornerCountMismatch_Never(iter, faceVertexCount) == FALSE

\* if (iter != (int)faceVertexCount)
CornerCountMismatch(iter, faceVertexCount) == iter # faceVertexCount

RECURSIVE SubfieldTargets(_, _, _)
\* the values of faceVertexDataIt at the switch, for the n subfields of one
\* corner token still to come: 0 vertex, 1 texcoord, 2 normal, 3 and more
\* nothing
SubfieldTargets(n, it, haveTexCoords) ==
  IF n = 0 THEN <<>>
  ELSE LET at == IF it = 1 /\ ~haveTexCoords THEN 2 ELSE it
       IN  <<at>> \o SubfieldTargets(n - 1, at + 1, haveTexCoords)

\* a store outside the array: the array was not malloc'ed, or the slot is
\* not one of its slots
StoreOutside(name, arr, slot) == name \notin objAllocated \/ slot >= Len(arr)

\* arr[slot] = x; a store outside leaves the array as it is
Store(name, arr, slot, x) ==
  IF StoreOutside(name, arr, slot) THEN arr ELSE [arr EXCEPT ![slot + 1] = <<x>>]

\* the tokens strtok(lineBuf, " ") returns after "f" in the third pass, as
\* [n: number of '/'-subfields, val: what sscanf(token, "%d") gives]: the
\* corner tokens of the line, then the tokens found behind the end of the
\* line, for which sscanf converts nothing and val is uninitialised.  val
\* is converted from the start of the token, not of the subfield.
FaceTokens(l, garbage) ==
  [j \in 1..Len(l.corners) |-> [n |-> Len(l.corners[j]), val |-> l.corners[j][1]]]
  \o [j \in 1..Len(garbage) |-> [n |-> 1, val |-> garbage[j]]]

RECURSIVE StoreCorner(_, _, _)
\* the stores of one corner token: st holds the three arrays, the slot
\* counter c and the flag out
StoreCorner(targets, val, st) ==
  IF targets = <<>> THEN st
  ELSE LET t == Head(targets)
           next ==
             IF t = 0 THEN
               [st EXCEPT !.fvi = Store("pFaceVertexIndices", st.fvi, st.c, StoredIndex(val)),
                          !.out = st.out \/ StoreOutside("pFaceVertexIndices", st.fvi, st.c)]
             ELSE IF t = 1 THEN
               [st EXCEPT !.fvti = Store("pFaceVertexTexCoordIndices", st.fvti, st.c, StoredIndex(val)),
                          !.out = st.out \/ StoreOutside("pFaceVertexTexCoordIndices", st.fvti, st.c)]
             ELSE IF t = 2 THEN
               [st EXCEPT !.fvni = Store("pFaceVertexNormalIndices", st.fvni, st.c, StoredIndex(val)),
                          !.out = st.out \/ StoreOutside("pFaceVertexNormalIndices", st.fvni, st.c)]
             ELSE st
       IN  StoreCorner(Tail(targets), val, next)

RECURSIVE StoreTokens(_, _, _)
\* the for loop over the tokens of an 'f ' line in the third pass
StoreTokens(toks, haveTexCoords, st) ==
  IF toks = <<>> THEN st
  ELSE LET after == StoreCorner(SubfieldTargets(Head(toks).n, 0, haveTexCoords),
                                Head(toks).val, st)
       IN  StoreTokens(Tail(toks), haveTexCoords, [after EXCEPT !.c = after.c + 1])

\* number of tokens strtok(token + strlen(token) + 1, " ") finds behind the
\* end of the line: none when the line ends with "\n" (the byte behind the
\* stripped '\n' is the terminator getline wrote); with "\r\n" only the
\* '\r' is overwritten, so "\n" is a token, and more may follow in the
\* bytes left behind it in the buffer
TailCounts(eol) == IF eol = "LF" THEN {0} ELSE 1..MaxTail

NotAllocated == [cap |-> -1, filled |-> 0]
Slots(n) == [k \in 1..n |-> <<>>]

ObjInit ==
  /\ objFile \in ObjFiles \cup ObjFieldFiles
  /\ objEol \in {"LF", "CRLF"}
  /\ passIterator = 0
  /\ objPos = 0
  /\ nFaceIndices = 0
  /\ nVertices = 0
  /\ nNormals = 0
  /\ nTexCoords = 0
  /\ nFaces = 0
  /\ faceIndicesCounter = 0
  /\ iterOfFace = <<>>
  /\ objNumVertices = 0
  /\ objNumNormals = 0
  /\ objNumTexcoords = 0
  /\ objNumFaces = 0
  /\ objVertices = NotAllocated
  /\ objNormals = NotAllocated
  /\ objTexCoords = NotAllocated
  /\ objFaceSizes = <<>>
  /\ objFaceVertexIndices = <<>>
  /\ objFaceVertexTexCoordIndices = <<>>
  /\ objFaceVertexNormalIndices = <<>>
  /\ objAllocated = {}
  /\ objWroteOutside = FALSE
  /\ objError = ""
  /\ objHandle = "open"
  /\ objPc = "scan"

ObjIdle ==
  /\ objFile = <<>>
  /\ objEol = "LF"
  /\ passIterator = 0
  /\ objPos = 0
  /\ nFaceIndices = 0
  /\ nVertices = 0
  /\ nNormals = 0
  /\ nTexCoords = 0
  /\ nFaces = 0
  /\ faceIndicesCounter = 0
  /\ iterOfFace = <<>>
  /\ objNumVertices = 0
  /\ objNumNormals = 0
  /\ objNumTexcoords = 0
  /\ objNumFaces = 0
  /\ objVertices = NotAllocated
  /\ objNormals = NotAllocated
  /\ objTexCoords = NotAllocated
  /\ objFaceSizes = <<>>
  /\ objFaceVertexIndices = <<>>
  /\ objFaceVertexTexCoordIndices = <<>>
  /\ objFaceVertexNormalIndices = <<>>
  /\ objAllocated = {}
  /\ objWroteOutside = FALSE
  /\ objError = ""
  /\ objHandle = "none"
  /\ objPc = "idle"

\* the line getline returns next
ObjCurrentLine == objFile[objPos + 1]
ObjAtLine(type) ==
  /\ objPc = "scan"
  /\ objPos < Len(objFile)
  /\ ObjFileCmdType(ObjCurrentLine) = type

\* std::abort() after a message
ObjAbort(err) ==
  /\ objPc' = "aborted"
  /\ objError' = err

\* an empty line, a comment, an unrecognised command: continue
ObjSkipLine ==
  /\ ObjAtLine("SKIPPED") \/ ObjAtLine("UNKNOWN")
  /\ objPos' = objPos + 1
  /\ UNCHANGED <<objInputVars, passIterator, nFaceIndices, objCountVars,
                 iterOfFace, objOutVars, objWroteOutside, objError, objPc>>
  /\ UNCHANGED objHandle
  /\ UNCHANGED objFrame

\* case VERTEX: nVertices++, and in the second pass sscanf, the three
\* stores and the check nread != 3
ObjVertexLine ==
  /\ ObjAtLine("VERTEX")
  /\ objPos' = objPos + 1
  /\ nVertices' = nVertices + 1
  /\ IF passIterator = 1
     THEN /\ objVertices' = [objVertices EXCEPT !.filled = @ + 1]
          /\ objWroteOutside' = (objWroteOutside \/ nVertices >= objVertices.cap)
          /\ IF ScanFields(ObjCurrentLine, 3) # 3
             THEN ObjAbort("error: have components for v")
             ELSE UNCHANGED <<objError, objPc>>
     ELSE UNCHANGED <<objVertices, objWroteOutside, objError, objPc>>
  /\ UNCHANGED <<objInputVars, passIterator, nFaceIndices, nNormals, nTexCoords,
                 nFaces, faceIndicesCounter, iterOfFace, objNumVertices,
                 objNumNormals, objNumTexcoords, objNumFaces, objNormals,
                 objTexCoords, objFaceSizes, objFaceVertexIndices,
                 objFaceVertexTexCoordIndices, objFaceVertexNormalIndices,
                 objAllocated>>
  /\ UNCHANGED objHandle
  /\ UNCHANGED objFrame

\* case NORMAL
ObjNormalLine ==
  /\ ObjAtLine("NORMAL")
  /\ objPos' = objPos + 1
  /\ nNormals' = nNormals + 1
  /\ IF passIterator = 1
     THEN /\ objNormals' = [objNormals EXCEPT !.filled = @ + 1]
          /\ objWroteOutside' = (objWroteOutside \/ nNormals >= objNormals.cap)
          /\ IF ScanFields(ObjCurrentLine, 3) # 3
             THEN ObjAbort("error: have components for vn")
             ELSE UNCHANGED <<objError, objPc>>
     ELSE UNCHANGED <<objNormals, objWroteOutside, objError, objPc>>
  /\ UNCHANGED <<objInputVars, passIterator, nFaceIndices, nVertices, nTexCoords,
                 nFaces, faceIndicesCounter, iterOfFace, objNumVertices,
                 objNumNormals, objNumTexcoords, objNumFaces, objVertices,
                 objTexCoords, objFaceSizes, objFaceVertexIndices,
                 objFaceVertexTexCoordIndices, objFaceVertexNormalIndices,
                 objAllocated>>
  /\ UNCHANGED objHandle
  /\ UNCHANGED objFrame

\* case TEXCOORD
ObjTexCoordLine ==
  /\ ObjAtLine("TEXCOORD")
  /\ objPos' = objPos + 1
  /\ nTexCoords' = nTexCoords + 1
  /\ IF passIterator = 1
     THEN /\ objTexCoords' = [objTexCoords EXCEPT !.filled = @ + 1]
          /\ objWroteOutside' = (objWroteOutside \/ nTexCoords >= objTexCoords.cap)
          /\ IF ScanFields(ObjCurrentLine, 2) # 2
             THEN ObjAbort("error: have components for vt")
             ELSE UNCHANGED <<objError, objPc>>
     ELSE UNCHANGED <<objTexCoords, objWroteOutside, objError, objPc>>
  /\ UNCHANGED <<objInputVars, passIterator, nFaceIndices, nVertices, nNormals,
                 nFaces, faceIndicesCounter, iterOfFace, objNumVertices,
                 objNumNormals, objNumTexcoords, objNumFaces, objVertices,
                 objNormals, objFaceSizes, objFaceVertexIndices,
                 objFaceVertexTexCoordIndices, objFaceVertexNormalIndices,
                 objAllocated>>
  /\ UNCHANGED objHandle
  /\ UNCHANGED objFrame

\* case FACE in the first pass: nFaces++ only
ObjFaceLineCount ==
  /\ ObjAtLine("FACE")
  /\ passIterator = 0
  /\ objPos' = objPos + 1
  /\ nFaces' = nFaces + 1
  /\ UNCHANGED <<objInputVars, passIterator, nFaceIndices, nVertices, nNormals,
                 nTexCoords, faceIndicesCounter, iterOfFace, objOutVars,
                 objWroteOutside, objError, objPc>>
  /\ UNCHANGED objHandle
  /\ UNCHANGED objFrame

\* case FACE in the second pass: count the tokens strtok(lineBuf + 2, " "),
\* strtok(NULL, " ") return, store the count, add it to nFaceIndices
ObjFaceLineSize ==
  /\ ObjAtLine("FACE")
  /\ passIterator = 1
  /\ LET faceVertexCount == Len(ObjCurrentLine.corners)
     IN  /\ objFaceSizes' = Store("pFaceSizes", objFaceSizes, nFaces, faceVertexCount)
         /\ objWroteOutside' =
              (objWroteOutside \/ StoreOutside("pFaceSizes", objFaceSizes, nFaces))
         /\ nFaceIndices' = nFaceIndices + faceVertexCount
  /\ objPos' = objPos + 1
  /\ nFaces' = nFaces + 1
  /\ UNCHANGED <<objInputVars, passIterator, nVertices, nNormals, nTexCoords,
                 faceIndicesCounter, iterOfFace, objNumVertices, objNumNormals,
                 objNumTexcoords, objNumFaces, objVertices, objNormals,
                 objTexCoords, objFaceVertexIndices,
                 objFaceVertexTexCoordIndices, objFaceVertexNormalIndices,
                 objAllocated, objError, objPc>>
  /\ UNCHANGED objHandle
  /\ UNCHANGED objFrame

\* case FACE in the third pass: the token loop, then the check of iter
\* against the stored size.  A store outside an array either goes
\* unnoticed or ends the process.
ObjFaceLineIndices ==
  /\ ObjAtLine("FACE")
  /\ passIterator = 2
  /\ \E tail \in TailCounts(objEol) :
       \E garbage \in [1..tail -> GarbageInts] :
         LET faceVertexCount == objFaceSizes[nFaces + 1][1]
             toks == FaceTokens(ObjCurrentLine, garbage)
             iter == Len(toks)
             st == StoreTokens(toks, nTexCoords > 0,
                               [c |-> faceIndicesCounter,
                                fvi |-> objFaceVertexIndices,
                                fvti |-> objFaceVertexTexCoordIndices,
                                fvni |-> objFaceVertexNormalIndices,
                                out |-> FALSE])
         IN  /\ objFaceVertexIndices' = st.fvi
             /\ objFaceVertexTexCoordIndices' = st.fvti
             /\ objFaceVertexNormalIndices' = st.fvni
             /\ faceIndicesCounter' = st.c
             /\ iterOfFace' = Append(iterOfFace, iter)
             /\ objWroteOutside' = (objWroteOutside \/ st.out)
             /\ \/ /\ CornerCountMismatch(iter, faceVertexCount)
                   /\ ObjAbort("error: have vertices when there should be")
                \/ /\ ~CornerCountMismatch(iter, faceVertexCount)
                   /\ UNCHANGED <<objError, objPc>>
                \/ /\ st.out
                   /\ objPc' = "crashed"
                   /\ UNCHANGED objError
  /\ objPos' = objPos + 1
  /\ nFaces' = nFaces + 1
  /\ UNCHANGED <<objInputVars, passIterator, nFaceIndices, nVertices, nNormals,
                 nTexCoords, objNumVertices, objNumNormals, objNumTexcoords,
                 objNumFaces, objVertices, objNormals, objTexCoords,
                 objFaceSizes, objAllocated>>
  /\ UNCHANGED objHandle
  /\ UNCHANGED objFrame

ObjAtEndOfFile == objPc = "scan" /\ objPos = Len(objFile)

\* the next iteration of the do loop: fsetpos to the start of the file and
\* the counters of the pass defined anew
ObjRewind ==
  /\ objPos' = 0
  /\ nVertices' = 0
  /\ nNormals' = 0
  /\ nTexCoords' = 0
  /\ nFaces' = 0
  /\ faceIndicesCounter' = 0

\* if (passIterator == 0): the mallocs sized by the counts, and the counts
\* stored through numVertices, numNormals, numTexcoords, numFaces
ObjEndFirstPass ==
  /\ ObjAtEndOfFile
  /\ passIterator = 0
  /\ objVertices' = IF nVertices > 0 THEN [cap |-> nVertices, filled |-> 0] ELSE objVertices
  /\ objNormals' = IF nNormals > 0 THEN [cap |-> nNormals, filled |-> 0] ELSE objNormals
  /\ objTexCoords' = IF nTexCoords > 0 THEN [cap |-> nTexCoords, filled |-> 0] ELSE objTexCoords
  /\ objFaceSizes' = IF nFaces > 0 THEN Slots(nFaces) ELSE objFaceSizes
  /\ objAllocated' = objAllocated
                       \cup (IF nVertices > 0 THEN {"pVertices"} ELSE {})
                       \cup (IF nNormals > 0 THEN {"pNormals"} ELSE {})
                       \cup (IF nTexCoords > 0 THEN {"pTexCoords"} ELSE {})
                       \cup (IF nFaces > 0 THEN {"pFaceSizes"} ELSE {})
  /\ objNumVertices' = nVertices
  /\ objNumNormals' = nNormals
  /\ objNumTexcoords' = nTexCoords
  /\ objNumFaces' = nFaces
  /\ ObjRewind
  /\ passIterator' = 1
  /\ UNCHANGED <<objInputVars, nFaceIndices, iterOfFace, objFaceVertexIndices,
                 objFaceVertexTexCoordIndices, objFaceVertexNormalIndices,
                 objWroteOutside, objError, objPc>>
  /\ UNCHANGED objHandle
  /\ UNCHANGED objFrame

\* a test that lets a count of zero through
NoFaceIndices_Negative(n) == n < 0

\* if (nFaceIndices == 0)
NoFaceIndices(n) == n = 0

\* if (passIterator == 1): abort when no face index was counted, else the
\* mallocs of the index arrays
ObjEndSecondPass ==
  /\ ObjAtEndOfFile
  /\ passIterator = 1
  /\ IF NoFaceIndices(nFaceIndices)
     THEN /\ ObjAbort("error: invalid face index count")
          /\ UNCHANGED <<passIterator, objPos, objCountVars, objFaceVertexIndices,
                         objFaceVertexTexCoordIndices, objFaceVertexNormalIndices,
                         objAllocated>>
     ELSE /\ objFaceVertexIndices' = Slots(nFaceIndices)
          /\ objFaceVertexTexCoordIndices' =
               IF nTexCoords > 0 THEN Slots(nFaceIndices) ELSE objFaceVertexTexCoordIndices
          /\ objFaceVertexNormalIndices' =
               IF nNormals > 0 THEN Slots(nFaceIndices) ELSE objFaceVertexNormalIndices
          /\ objAllocated' = objAllocated
                               \cup {"pFaceVertexIndices"}
                               \cup (IF nTexCoords > 0 THEN {"pFaceVertexTexCoordIndices"} ELSE {})
                               \cup (IF nNormals > 0 THEN {"pFaceVertexNormalIndices"} ELSE {})
          /\ ObjRewind
          /\ passIterator' = 2
          /\ UNCHANGED <<objError, objPc>>
  /\ UNCHANGED <<objInputVars, nFaceIndices, iterOfFace, objNumVertices,
                 objNumNormals, objNumTexcoords, objNumFaces, objVertices,
                 objNormals, objTexCoords, objFaceSizes, objWroteOutside>>
  /\ UNCHANGED objHandle
  /\ UNCHANGED objFrame

\* the end of the third pass: ++passIterator < 3 fails, free, fclose, return
ObjEndThirdPass ==
  /\ ObjAtEndOfFile
  /\ passIterator = 2
  /\ passIterator' = 3
  /\ objPc' = "returned"
  /\ UNCHANGED <<objInputVars, objPos, nFaceIndices, objCountVars, iterOfFace,
                 objOutVars, objWroteOutside, objError>>
  /\ objHandle' = Fclose(objHandle)
  /\ UNCHANGED objFrame

ObjNext ==
  \/ ObjSkipLine
  \/ ObjVertexLine
  \/ ObjNormalLine
  \/ ObjTexCoordLine
  \/ ObjFaceLineCount
  \/ ObjFaceLineSize
  \/ ObjFaceLineIndices
  \/ ObjEndFirstPass
  \/ ObjEndSecondPass
  \/ ObjEndThirdPass

(***************************************************************************)
(* Engine queries.  A call to the engine is a record: fn the function,     *)
(* kind the data kind queried (the component type for the list),           *)
(* component the index of the connected component (-1 for the list),       *)
(* bytes the size argument, buffer the size of the output buffer (-1 for a *)
(* null pointer), sizeOut the size the engine stored through the size      *)
(* pointer (-1 when the pointer is null) and status the result.            *)
(***************************************************************************)
NoCall == [fn |-> "none", kind |-> "none", component |-> -1, bytes |-> 0,
           buffer |-> -1, sizeOut |-> -1, status |-> "MC_NO_ERROR"]

\* the results of an engine call: success or an error code
EngineStatus == {"MC_NO_ERROR", "MC_INVALID_VALUE"}

\* the component type and the data kinds a program queries for every
\* connected component, in the order of its calls
ComponentType(program) ==
  IF program = "HelloWorld" THEN "MC_CONNECTED_COMPONENT_TYPE_ALL"
  ELSE "MC_CONNECTED_COMPONENT_TYPE_FRAGMENT"

DataKinds(program) ==
  IF program = "HelloWorld"
  THEN <<"VERTEX_FLOAT", "FACE", "FACE_SIZE">>
  ELSE <<"SEAM_VERTEX_SEQUENCE", "VERTEX_DOUBLE", "FACE_TRIANGULATION">>

\* sizeof of one element of a data kind
ElementBytes(kind) == IF kind = "VERTEX_DOUBLE" THEN 8 ELSE 4

\* elements the program divides the byte size by: a coordinate triple, a
\* triangle, or one index
GroupElements(kind) ==
  IF kind \in {"VERTEX_FLOAT", "VERTEX_DOUBLE", "FACE_TRIANGULATION"}
  THEN 3 ELSE 1

\* the byte sizes the engine reports for a data kind: a whole number of
\* vertices, triangles or indices
EngineSizes(kind) ==
  {n * GroupElements(kind) * ElementBytes(kind) : n \in 0..MaxElements}

\* bytes of the vector the program allocates after a size query of numBytes
BufferBytes_OneShort(kind, n) ==
  IF n = 0 THEN 0 ELSE n - ElementBytes(kind)

BufferBytes(kind, n) ==
  (n \div (ElementBytes(kind) * GroupElements(kind)))
    * GroupElements(kind) * ElementBytes(kind)

\* a test that lets every result through
QueryFailed_Ignored(status) == FALSE

\* a call that failed ends the program: my_assert aborts, the other
\* program calls exit(1)
QueryFailed(status) == status # "MC_NO_ERROR"

\* the exit status of a failed call: my_assert aborts, the other program
\* calls exit(1)
FailureExit(program) == IF program = "HelloWorld" THEN 134 ELSE 1

\* the entry of a call in the list of calls
Called(fn, status) == [fn |-> fn, status |-> status]

QryInit ==
  /\ qryProgram \in {"HelloWorld", "QuerySeamVerticesSorted"}
  /\ numConnComps = 0
  /\ qryI = 0
  /\ qryKind = 1
  /\ numBytes = 0
  /\ qryBuffer = 0
  /\ qryCall = NoCall
  /\ qryPrevCall = NoCall
  /\ qryCalls = <<>>
  /\ qryExit = -1
  /\ qryPc = "create"

QryIdle ==
  /\ qryProgram = "none"
  /\ numConnComps = 0
  /\ qryI = 0
  /\ qryKind = 1
  /\ numBytes = 0
  /\ qryBuffer = 0
  /\ qryCall = NoCall
  /\ qryPrevCall = NoCall
  /\ qryCalls = <<>>
  /\ qryExit = -1
  /\ qryPc = "idle"

\* mcCreateContext(&context, flags) and the test of its result
CreateContext ==
  /\ qryPc = "create"
  /\ \E status \in EngineStatus :
       /\ qryCall' = [NoCall EXCEPT !.fn = "mcCreateContext",
                                    !.status = status]
       /\ qryCalls' = Append(qryCalls, Called("mcCreateContext", status))
       /\ IF QueryFailed(status)
          THEN qryPc' = "exited" /\ qryExit' = FailureExit(qryProgram)
          ELSE /\ qryPc' = IF qryProgram = "HelloWorld" THEN "dispatch"
                           ELSE "info"
               /\ UNCHANGED qryExit
  /\ qryPrevCall' = qryCall
  /\ UNCHANGED <<qryProgram, numConnComps, qryI, qryKind, numBytes, qryBuffer>>
  /\ UNCHANGED qryFrame

\* the two calls of mcGetInfo(context, MC_CONTEXT_FLAGS, ...), whose results
\* are not tested, and, when the flags read have MC_DEBUG set,
\* mcDebugMessageCallback and mcDebugMessageControl; contextFlags is what the
\* engine stored, or an uninitialised value when the call failed
ConfigDebug ==
  /\ qryPc = "info"
  /\ \E first \in EngineStatus, second \in EngineStatus, debug \in BOOLEAN :
       LET info == <<Called("mcGetInfo", first), Called("mcGetInfo", second)>>
           control == <<Called("mcDebugMessageCallback", "MC_NO_ERROR"),
                        Called("mcDebugMessageControl", "MC_NO_ERROR")>>
       IN /\ qryCalls' = qryCalls \o info \o (IF debug THEN control ELSE <<>>)
          /\ qryCall' = [NoCall EXCEPT
                           !.fn = IF debug THEN "mcDebugMessageControl"
                                  ELSE "mcGetInfo",
                           !.status = IF debug THEN "MC_NO_ERROR" ELSE second]
          /\ qryPrevCall' = [NoCall EXCEPT
                               !.fn = IF debug THEN "mcDebugMessageCallback"
                                      ELSE "mcGetInfo",
                               !.status = IF debug THEN "MC_NO_ERROR"
                                          ELSE first]
  /\ qryPc' = "dispatch"
  /\ UNCHANGED <<qryProgram, numConnComps, qryI, qryKind, numBytes, qryBuffer,
                 qryExit>>
  /\ UNCHANGED qryFrame

\* mcDispatch(context, ...) and the test of its result
Dispatch ==
  /\ qryPc = "dispatch"
  /\ \E status \in EngineStatus :
       /\ qryCall' = [NoCall EXCEPT !.fn = "mcDispatch", !.status = status]
       /\ qryCalls' = Append(qryCalls, Called("mcDispatch", status))
       /\ IF QueryFailed(status)
          THEN qryPc' = "exited" /\ qryExit' = FailureExit(qryProgram)
          ELSE qryPc' = "count" /\ UNCHANGED qryExit
  /\ qryPrevCall' = qryCall
  /\ UNCHANGED <<qryProgram, numConnComps, qryI, qryKind, numBytes, qryBuffer>>
  /\ UNCHANGED qryFrame

\* mcGetConnectedComponents(context, type, 0, NULL, &count), the test of
\* the result, the test for zero components and the resize
QueryComponentCount ==
  /\ qryPc = "count"
  /\ \E status \in EngineStatus, count \in 0..MaxComponents :
       /\ qryCall' = [fn |-> "mcGetConnectedComponents",
                      kind |-> ComponentType(qryProgram), component |-> -1,
                      bytes |-> 0, buffer |-> -1, sizeOut |-> count,
                      status |-> status]
       /\ qryCalls' = Append(qryCalls,
                             Called("mcGetConnectedComponents", status))
       /\ IF QueryFailed(status)
          THEN /\ qryPc' = "exited"
               /\ qryExit' = FailureExit(qryProgram)
               /\ UNCHANGED <<numConnComps, qryBuffer>>
          ELSE /\ numConnComps' = count
               /\ IF count = 0
                  THEN /\ qryPc' = "exited"
                       /\ qryExit' = IF qryProgram = "HelloWorld" THEN 1
                                     ELSE 0
                       /\ UNCHANGED qryBuffer
                  ELSE /\ qryPc' = "list"
                       /\ qryBuffer' = count
                       /\ UNCHANGED qryExit
  /\ qryPrevCall' = qryCall
  /\ UNCHANGED <<qryProgram, qryI, qryKind, numBytes>>
  /\ UNCHANGED qryFrame

\* mcGetConnectedComponents(context, type, size(), data(), NULL) and the
\* test of the result; the loop over the components starts
FillComponents ==
  /\ qryPc = "list"
  /\ \E status \in EngineStatus :
       /\ qryCall' = [fn |-> "mcGetConnectedComponents",
                      kind |-> ComponentType(qryProgram), component |-> -1,
                      bytes |-> qryBuffer, buffer |-> qryBuffer,
                      sizeOut |-> -1, status |-> status]
       /\ qryCalls' = Append(qryCalls,
                             Called("mcGetConnectedComponents", status))
       /\ qryPc' = IF QueryFailed(status) THEN "exited" ELSE "size"
       /\ qryExit' = IF QueryFailed(status) THEN FailureExit(qryProgram)
                     ELSE qryExit
  /\ qryPrevCall' = qryCall
  /\ qryI' = 0
  /\ qryKind' = 1
  /\ numBytes' = 0
  /\ UNCHANGED <<qryProgram, numConnComps, qryBuffer>>
  /\ UNCHANGED qryFrame

\* mcGetConnectedComponentData(context, cc, kind, 0, NULL, &numBytes), the
\* test of the result and the allocation of the vector
QueryDataSize ==
  /\ qryPc = "size"
  /\ LET kind == DataKinds(qryProgram)[qryKind] IN
     \E status \in EngineStatus, size \in EngineSizes(kind) :
       /\ qryCall' = [fn |-> "mcGetConnectedComponentData", kind |-> kind,
                      component |-> qryI, bytes |-> 0, buffer |-> -1,
                      sizeOut |-> size, status |-> status]
       /\ qryCalls' = Append(qryCalls,
                             Called("mcGetConnectedComponentData", status))
       /\ qryExit' = IF QueryFailed(status) THEN FailureExit(qryProgram)
                     ELSE qryExit
       /\ IF QueryFailed(status)
          THEN /\ qryPc' = "exited"
               /\ UNCHANGED <<numBytes, qryBuffer>>
          ELSE /\ qryPc' = "fill"
               /\ numBytes' = size
               /\ qryBuffer' = BufferBytes(kind, size)
  /\ qryPrevCall' = qryCall
  /\ UNCHANGED <<qryProgram, numConnComps, qryI, qryKind>>
  /\ UNCHANGED qryFrame

\* mcGetConnectedComponentData(context, cc, kind, numBytes, data(), NULL)
\* and the test of the result; after the last kind the component is
\* written to its file and the loop goes to the next component
FillData ==
  /\ qryPc = "fill"
  /\ LET kinds == DataKinds(qryProgram) IN
     \E status \in EngineStatus :
       /\ qryCall' = [fn |-> "mcGetConnectedComponentData",
                      kind |-> kinds[qryKind], component |-> qryI,
                      bytes |-> numBytes, buffer |-> qryBuffer,
                      sizeOut |-> -1, status |-> status]
       /\ qryCalls' = Append(qryCalls,
                             Called("mcGetConnectedComponentData", status))
       /\ qryExit' = IF QueryFailed(status) THEN FailureExit(qryProgram)
                     ELSE qryExit
       /\ IF QueryFailed(status)
          THEN qryPc' = "exited" /\ UNCHANGED <<qryI, qryKind, numBytes>>
          ELSE IF qryKind < Len(kinds)
          THEN /\ qryKind' = qryKind + 1
               /\ numBytes' = 0
               /\ qryPc' = "size"
               /\ UNCHANGED qryI
          ELSE /\ qryI' = qryI + 1
               /\ qryKind' = 1
               /\ numBytes' = 0
               /\ qryPc' = IF qryI + 1 < numConnComps THEN "size"
                           ELSE "release"
  /\ qryPrevCall' = qryCall
  /\ UNCHANGED <<qryProgram, numConnComps, qryBuffer>>
  /\ UNCHANGED qryFrame

\* mcReleaseConnectedComponents(context, 0, NULL) and the test of its
\* result, then mcReleaseContext(context) and the test of its result
ReleaseAll ==
  /\ qryPc = "release"
  /\ \E status \in EngineStatus :
       IF QueryFailed(status)
       THEN /\ qryCall' = [NoCall EXCEPT !.fn = "mcReleaseConnectedComponents",
                                         !.status = status]
            /\ qryPrevCall' = qryCall
            /\ qryCalls' = Append(qryCalls,
                                  Called("mcReleaseConnectedComponents", status))
            /\ qryPc' = "exited"
            /\ qryExit' = FailureExit(qryProgram)
       ELSE \E last \in EngineStatus :
            /\ qryCalls' = qryCalls \o
                 <<Called("mcReleaseConnectedComponents", status),
                   Called("mcReleaseContext", last)>>
            /\ qryExit' = IF QueryFailed(last) THEN FailureExit(qryProgram)
                          ELSE 0
            /\ qryCall' = [NoCall EXCEPT !.fn = "mcReleaseContext",
                                         !.status = last]
            /\ qryPrevCall' =
                 [NoCall EXCEPT !.fn = "mcReleaseConnectedComponents"]
            /\ qryPc' = IF QueryFailed(last) THEN "exited" ELSE "returned"
  /\ UNCHANGED <<qryProgram, numConnComps, qryI, qryKind, numBytes, qryBuffer>>
  /\ UNCHANGED qryFrame

QryNext ==
  \/ CreateContext
  \/ ConfigDebug
  \/ Dispatch
  \/ QueryComponentCount
  \/ FillComponents
  \/ QueryDataSize
  \/ FillData
  \/ ReleaseAll

(***************************************************************************)
(* Specifications                                                          *)
(***************************************************************************)
InitSeam == SeamInit /\ OffIdle /\ ObjIdle /\ QryIdle
NextSeam == SeamNext
SpecSeam == InitSeam /\ [][NextSeam]_vars

InitOFF == OffInit /\ SeamIdle /\ ObjIdle /\ QryIdle
NextOFF == OffNext
SpecOFF == InitOFF /\ [][NextOFF]_vars

InitOBJ == ObjInit /\ SeamIdle /\ OffIdle /\ QryIdle
NextOBJ == ObjNext
SpecOBJ == InitOBJ /\ [][NextOBJ]_vars

InitQuery == QryInit /\ SeamIdle /\ OffIdle /\ ObjIdle
NextQuery == QryNext
SpecQuery == InitQuery /\ [][NextQuery]_vars

\* the three file functions: a run of writeOFF and readOFF, or a run of
\* readOBJ
InitFiles ==
  /\ \/ OffInit /\ ObjIdle
     \/ ObjInit /\ OffIdle
  /\ SeamIdle
  /\ QryIdle
NextFiles == OffNext \/ ObjNext
SpecFiles == InitFiles /\ [][NextFiles]_vars

(***************************************************************************)
(* C1: for an array that holds a whole serialisation [N, (len_k, loop_k,   *)
(* idx_k)...], the finished decode has produced exactly the N serialised   *)
(* records, in order, each with its indices in order and its flag, and the *)
(* cursor stands at the array length; for [0] the collection is empty.     *)
(***************************************************************************)
C1_DecodeWellFormed ==
  (seamPc = "done" /\ seamComplete) =>
    /\ seamVertexSequences = seamSource
    /\ Len(seamVertexSequences) = seamVertexSequenceArrayFromMCUT[1]
    /\ runningOffset = Len(seamVertexSequenceArrayFromMCUT)
    /\ (seamVertexSequenceArrayFromMCUT = <<0>> => seamVertexSequences = <<>>)

\* a whole array of two sequences, the second one non-empty, was decoded
C1_Witness ==
  /\ seamPc = "done"
  /\ seamComplete
  /\ Len(seamSource) = 2
  /\ Len(seamSource[2][1]) = 2
  /\ seamSource[1] # seamSource[2]

\* the decode of [0] finished
C1_WitnessEmpty ==
  seamPc = "done" /\ seamVertexSequenceArrayFromMCUT = <<0>>

(***************************************************************************)
(* C2: an array whose declared count or lengths reach past its end is      *)
(* rejected: the decode never finishes on it and never reads an element    *)
(* outside the array.                                                      *)
(***************************************************************************)
C2_MalformedRejected ==
  /\ ~seamReadOutside
  /\ (seamPc = "done" => seamComplete)

(***************************************************************************)
(* Reading the file as its format describes it: the accepted lines are the *)
(* lines that are neither blank nor comments; the first is the header, the *)
(* second the element counts, then numVertices vertex lines, then numFaces *)
(* face lines.                                                             *)
(***************************************************************************)
AcceptedLines == SelectSeq(offFile, IsReal)

\* TRUE iff the file has an f-th face line (f from 1)
HasFaceLine(f) == 2 + numVertices + f <= Len(AcceptedLines)
FaceLine(f) == AcceptedLines[2 + numVertices + f]
\* the leading corner count of a face line
LeadingCount(l) == l[1].v

\* number of lines of the file up to and including its k-th accepted line
PosOfAccepted(k) ==
  CHOOSE p \in 0..Len(offFile) :
    Len(SelectSeq(SubSeq(offFile, 1, p), IsReal)) = k
    /\ (p > 0 => IsReal(offFile[p]))

\* the corner counts writeOFF used
MeshSizes == [f \in 1..MeshNumFaces |-> FaceVertexCount(f)]
OffUntouched == ~offTruncated /\ ~offInserted /\ SingleSpaced(offFile)
OffStopped == offPc \in {"exited", "crashed", "hung"}

\* a coordinate (1e-7 units) rounded to six decimals
Round6(c) == ((c + 5) \div 10) * 10

(***************************************************************************)
(* C3 as stated: for every mesh with sum(face sizes) = number of corner    *)
(* indices, readOFF on the file writeOFF wrote returns, with the counts,   *)
(* vertex coordinates, face sizes and corner indices of the mesh.          *)
(***************************************************************************)
C3_RoundTrip ==
  (OffUntouched /\ offPc \notin {"init", "written"}) =>
    /\ ~OffStopped
    /\ offPc = "returned" =>
         /\ numVertices = MeshNumVertices
         /\ numFaces = MeshNumFaces
         /\ pVertices = meshVertices
         /\ pFaceSizes = MeshSizes
         /\ pFaceVertexIndices = meshFaceVertexIndices

(***************************************************************************)
(* C3 amended: for every mesh whose faces all have at least 3 corners,     *)
(* readOFF on the file writeOFF wrote returns, with the counts, face sizes *)
(* and corner indices of the mesh and with every vertex coordinate rounded *)
(* to six decimals (so identical when it has at most six decimals).        *)
(***************************************************************************)
C3_RoundTripAmended ==
  (/\ OffUntouched
   /\ offPc \notin {"init", "written"}
   /\ \A f \in 1..MeshNumFaces : MeshSizes[f] >= 3) =>
    /\ ~OffStopped
    /\ offPc = "returned" =>
         /\ numVertices = MeshNumVertices
         /\ numFaces = MeshNumFaces
         /\ pVertices = [k \in 1..Len(meshVertices) |-> Round6(meshVertices[k])]
         /\ \A k \in 1..Len(meshVertices) :
              meshVertices[k] % 10 = 0 => pVertices[k] = meshVertices[k]
         /\ pFaceSizes = MeshSizes
         /\ pFaceVertexIndices = meshFaceVertexIndices

\* a mesh of one vertex and two faces of different sizes went through
C3_Witness ==
  /\ offPc = "returned"
  /\ OffUntouched
  /\ MeshNumVertices = 1
  /\ MeshNumFaces = 2
  /\ ~meshFaceSizesNull
  /\ meshFaceSizes[1] > meshFaceSizes[2]
  /\ meshFaceSizes[2] >= 3

(***************************************************************************)
(* What readOBJ was given, read off the file                               *)
(***************************************************************************)
ObjLinesWith(cmd) == SelectSeq(objFile, LAMBDA l : l.cmd = cmd)
ObjFaceLinesOf == ObjLinesWith("f")

RECURSIVE ObjCornersIn(_)
\* the corner tokens of the given face lines, in file order
ObjCornersIn(faces) ==
  IF faces = <<>> THEN <<>> ELSE Head(faces).corners \o ObjCornersIn(Tail(faces))
ObjCornersOf == ObjCornersIn(ObjFaceLinesOf)

\* the sizes stored in *pFaceSizes
ObjStoredSizes == [f \in 1..Len(objFaceSizes) |-> objFaceSizes[f][1]]

\* the file "v 0 0 0\nv 1 0 0\nv 1 1 0\nf 1 2 3\n"
ObjExample == ObjBlock(3, 0, 0, 0) \o <<ObjFace(3, 1)>>

(***************************************************************************)
(* C4: whenever readOBJ has returned, the sum of the face sizes stored in  *)
(* the second pass equals the final value of the corner-slot counter of    *)
(* the third pass, and every face produced in the third pass as many       *)
(* corners as the second pass stored for it; and once a face has produced  *)
(* a different number of corners, readOBJ has aborted (or the process has  *)
(* died) and does not return.                                              *)
(***************************************************************************)
C4_CornerConsistency ==
  /\ objPc = "returned" =>
       /\ SumSeq(ObjStoredSizes) = faceIndicesCounter
       /\ Len(iterOfFace) = Len(objFaceSizes)
       /\ \A f \in 1..Len(iterOfFace) : iterOfFace[f] = ObjStoredSizes[f]
  /\ (\E f \in 1..Len(iterOfFace) : iterOfFace[f] # objFaceSizes[f][1]) =>
       objPc \in {"aborted", "crashed"}

\* readOBJ returned two faces of different sizes
C4_Witness ==
  /\ objPc = "returned"
  /\ Len(iterOfFace) = 2
  /\ iterOfFace[1] # iterOfFace[2]
  /\ faceIndicesCounter > MaxCorners

\* readOBJ aborted at the second face of a file with "\r\n" line ends
C4_WitnessMismatch ==
  /\ objPc = "aborted"
  /\ Len(iterOfFace) = 1
  /\ Len(objFaceSizes) = 2
  /\ iterOfFace[1] > objFaceSizes[1][1]

(***************************************************************************)
(* C5: when readOBJ has returned, the face-vertex index array has one slot *)
(* per corner token of the file, in file order, and each slot holds the    *)
(* vertex number written in its corner token minus 1.                      *)
(***************************************************************************)
C5_VertexIndices ==
  objPc = "returned" =>
    /\ Len(objFaceVertexIndices) = Len(ObjCornersOf)
    /\ \A s \in 1..Len(ObjCornersOf) :
         objFaceVertexIndices[s] = <<ObjCornersOf[s][1] - 1>>

\* readOBJ returned two faces, the second one's corners behind the first's
C5_Witness ==
  /\ objPc = "returned"
  /\ Len(ObjFaceLinesOf) = 2
  /\ Len(ObjFaceLinesOf[1].corners) = MaxCorners - 1
  /\ Len(ObjFaceLinesOf[2].corners) = MaxCorners
  /\ objFaceVertexIndices[MaxCorners - 1] = <<MaxCorners - 2>>
  /\ objFaceVertexIndices[MaxCorners] = <<0>>
  /\ objFaceVertexIndices[2 * MaxCorners - 1] = <<MaxCorners - 1>>

(***************************************************************************)
(* C6: when readOBJ has returned a mesh with texcoords and normals, then   *)
(* for every corner token v/t/n the corner's slot of the texcoord index    *)
(* array holds t - 1 and its slot of the normal index array holds n - 1.   *)
(***************************************************************************)
C6_OwnSubfield ==
  (objPc = "returned" /\ objNumTexcoords > 0 /\ objNumNormals > 0) =>
    \A s \in 1..Len(ObjCornersOf) :
      Len(ObjCornersOf[s]) = 3 =>
        /\ objFaceVertexTexCoordIndices[s] = <<ObjCornersOf[s][2] - 1>>
        /\ objFaceVertexNormalIndices[s] = <<ObjCornersOf[s][3] - 1>>

(***************************************************************************)
(* C7: when readOBJ has returned from a file with at least one 'f ' line,  *)
(* *numVertices, *numNormals, *numTexcoords and *numFaces are the numbers  *)
(* of lines of the file that begin with 'v ', 'vn ', 'vt ' and 'f ', and   *)
(* the size stored for each face is the number of corner tokens on its     *)
(* line; for "v 0 0 0\nv 1 0 0\nv 1 1 0\nf 1 2 3\n" that is 3, 0, 0, 1,    *)
(* one size 3 and the vertex indices 0, 1, 2.                              *)
(***************************************************************************)
C7_Counts ==
  /\ (objPc = "returned" /\ Len(ObjFaceLinesOf) >= 1) =>
       /\ objNumVertices = Len(ObjLinesWith("v"))
       /\ objNumNormals = Len(ObjLinesWith("vn"))
       /\ objNumTexcoords = Len(ObjLinesWith("vt"))
       /\ objNumFaces = Len(ObjFaceLinesOf)
       /\ Len(objFaceSizes) = Len(ObjFaceLinesOf)
       /\ \A f \in 1..Len(ObjFaceLinesOf) :
            objFaceSizes[f] = <<Len(ObjFaceLinesOf[f].corners)>>
  /\ (objPc = "returned" /\ objFile = ObjExample) =>
       /\ objNumVertices = 3
       /\ objNumNormals = 0
       /\ objNumTexcoords = 0
       /\ objNumFaces = 1
       /\ objFaceSizes = <<<<3>>>>
       /\ objFaceVertexIndices = <<<<0>>, <<1>>, <<2>>>>

\* readOBJ returned from a file with lines of all kinds and a face
C7_Witness ==
  /\ objPc = "returned"
  /\ objNumVertices = 1
  /\ objNumNormals = 1
  /\ objNumTexcoords = 1
  /\ objNumFaces = 1
  /\ objFaceSizes = <<<<MaxCorners>>>>

\* readOBJ returned from "v 0 0 0\nv 1 0 0\nv 1 1 0\nf 1 2 3\n"
C7_WitnessExample ==
  /\ objPc = "returned"
  /\ objFile = ObjExample

(***************************************************************************)
(* C8: when readOFF has returned, the face-size array has numFaces         *)
(* entries, entry f is the leading count of the f-th face line, the        *)
(* bookmark is the position right after the vertex block, the corner-index *)
(* array was allocated with sum(face sizes) slots and the second face loop *)
(* wrote exactly that many: the final write offset is sum(face sizes).     *)
(***************************************************************************)
C8_SizeInvariant ==
  offPc = "returned" =>
    /\ Len(pFaceSizes) = numFaces
    /\ \A f \in 1..numFaces :
         HasFaceLine(f) => pFaceSizes[f] = LeadingCount(FaceLine(f))
    /\ 2 + numVertices <= Len(AcceptedLines)
         => facesStartOffset = PosOfAccepted(2 + numVertices)
    /\ pFaceVertexIndicesCap = SumSeq(pFaceSizes)
    /\ Len(pFaceVertexIndices) = SumSeq(pFaceSizes)
    /\ indexOffset = SumSeq(pFaceSizes)

\* readOFF returned two faces of different sizes, read past a comment line
C8_Witness ==
  /\ offPc = "returned"
  /\ numFaces = 2
  /\ HasFaceLine(2)
  /\ pFaceSizes[1] # pFaceSizes[2]
  /\ offInserted
  /\ facesStartOffset > 2 + numVertices

(***************************************************************************)
(* C9: when one of the numFaces face lines has a leading count below 3,    *)
(* the first face loop does not get past that line, the corner-index array *)
(* is never allocated, readOFF does not return, and it stops by exit(1)    *)
(* with the invalid-vertex-count message.                                  *)
(***************************************************************************)
SmallFace(f) == HasFaceLine(f) /\ LeadingCount(FaceLine(f)) < 3

C9_SmallFaceRejected ==
  (offPc \notin {"init", "written", "counts"} /\ \E f \in 1..numFaces : SmallFace(f)) =>
    /\ offPc \in {"vertices", "faces1", "exited"}
    /\ pFaceVertexIndicesCap = -1
    /\ offPc = "faces1" => \A f \in 1..i : ~SmallFace(f)
    /\ offPc = "exited" => offError = "error: invalid vertex count in file"

\* readOFF stopped at the second face line, the first one being large enough
C9_Witness ==
  /\ offPc = "exited"
  /\ numFaces = 2
  /\ ~SmallFace(1)
  /\ SmallFace(2)
  /\ Len(pFaceSizes) = 1

(***************************************************************************)
(* C10: readOFF returns only when the file has the header line, the        *)
(* element-count line and as many vertex and face lines as the             *)
(* element-count line declares.                                            *)
(***************************************************************************)
C10_ShortFileRejected ==
  offPc = "returned" => Len(AcceptedLines) >= 2 + numVertices + numFaces

(***************************************************************************)
(* C11 as stated: readOBJ returns only from files whose 'v ' and 'vn '     *)
(* lines all have exactly 3 numeric fields and whose 'vt ' lines all have  *)
(* exactly 2.                                                              *)
(***************************************************************************)
ObjExpectedFields(l) == IF l.cmd = "vt" THEN 2 ELSE 3
ObjIsAttribute(l) == l.cmd \in {"v", "vn", "vt"}
\* the lines the current pass has processed so far
ObjLinesDone(pass) ==
  IF passIterator > pass THEN Len(objFile)
  ELSE IF passIterator = pass THEN objPos ELSE 0

C11_FieldCountExact ==
  objPc = "returned" =>
    \A k \in 1..Len(objFile) :
      ObjIsAttribute(objFile[k]) => objFile[k].fields = ObjExpectedFields(objFile[k])

(***************************************************************************)
(* C11 amended: once the second pass has processed a 'v ' or 'vn ' line    *)
(* with fewer than 3 numeric fields, or a 'vt ' line with fewer than 2,    *)
(* readOBJ has aborted in that pass with the components message and does   *)
(* not return; numeric fields beyond the third (second for 'vt ') are      *)
(* ignored.                                                                *)
(***************************************************************************)
ObjShortLine(l) == ObjIsAttribute(l) /\ l.fields < ObjExpectedFields(l)

C11_FieldCountShort ==
  (\E k \in 1..ObjLinesDone(1) : ObjShortLine(objFile[k])) =>
    /\ objPc = "aborted"
    /\ passIterator = 1
    /\ ObjShortLine(objFile[objPos])
    /\ objError \in {"error: have components for v", "error: have components for vn",
                     "error: have components for vt"}

\* readOBJ aborted at a short 'vt ' line that follows well-formed lines
C11_Witness ==
  /\ objPc = "aborted"
  /\ passIterator = 1
  /\ objPos > 1
  /\ objFile[objPos].cmd = "vt"
  /\ objFile[objPos].fields = 1
  /\ objError = "error: have components for vt"

\* readOBJ returned from a file with a 'v ' line of 4 numeric fields
C11_WitnessExtra ==
  /\ objPc = "returned"
  /\ \E k \in 1..Len(objFile) : objFile[k].cmd = "v" /\ objFile[k].fields = 4

(***************************************************************************)
(* C12: when the decode of a component's array is finished and the array   *)
(* of the component before it was the same array, the two decoded          *)
(* collections are equal.                                                  *)
(***************************************************************************)
SeamSameArrayAgain ==
  /\ seamPc = "done"
  /\ seamPrevious.done
  /\ seamPrevious.array = seamVertexSequenceArrayFromMCUT

C12_Idempotent ==
  SeamSameArrayAgain => seamVertexSequences = seamPrevious.sequences

\* C12 for arrays that hold a whole serialisation: the second decode of the
\* same array gives the collection the first one gave
C12_IdempotentWellFormed ==
  (SeamSameArrayAgain /\ seamComplete) => seamVertexSequences = seamPrevious.sequences

\* C12, the decode leaves the array as it is
C12_ArrayUnchanged ==
  [][(seamPc = "start" \/ seamPc = "loop") =>
       (seamVertexSequenceArrayFromMCUT' = seamVertexSequenceArrayFromMCUT)]_vars

\* a whole serialisation of two records was decoded twice
C12_WitnessWellFormed ==
  /\ SeamSameArrayAgain
  /\ seamComplete
  /\ Len(seamVertexSequences) = MaxSeqs
  /\ seamVertexSequences[1] # seamVertexSequences[2]

(***************************************************************************)
(* C13: for a file with a header line, an element-count line that gives 0  *)
(* faces and the vertex lines it declares, readOFF does not stop with an   *)
(* error, and when it has returned numFaces is 0, the face-size array and  *)
(* the corner-index array are empty (allocated with size 0) and the vertex *)
(* array holds the coordinates of the vertex lines in order.               *)
(***************************************************************************)
OffCounts == ScanInts(AcceptedLines[2], 3)
OffZeroFaceFile ==
  /\ Len(AcceptedLines) >= 2
  /\ HasOFF(AcceptedLines[1])
  /\ Len(OffCounts) = 3
  /\ OffCounts[2] = 0
  /\ Len(AcceptedLines) >= 2 + OffCounts[1]
  /\ \A v \in 1..OffCounts[1] : Len(ScanDoubles(AcceptedLines[2 + v], 3)) = 3

RECURSIVE OffVertexValues(_)
\* the coordinates of the first n vertex lines of the file
OffVertexValues(n) ==
  IF n = 0 THEN <<>>
  ELSE OffVertexValues(n - 1) \o ScanDoubles(AcceptedLines[2 + n], 3)

C13_ZeroFaces ==
  (offPc \notin {"idle", "init"} /\ OffZeroFaceFile) =>
    /\ ~OffStopped
    /\ offPc = "returned" =>
         /\ numFaces = 0
         /\ pFaceSizes = <<>>
         /\ pFaceVertexIndices = <<>>
         /\ pFaceVertexIndicesCap = 0
         /\ numVertices = OffCounts[1]
         /\ pVertices = OffVertexValues(numVertices)
         /\ offError = ""

\* readOFF returned from a file of one vertex, no face and an edge line
C13_Witness ==
  /\ offPc = "returned"
  /\ OffZeroFaceFile
  /\ OffCounts[1] = 1
  /\ OffCounts[3] = 1
  /\ Len(pVertices) = 3

(***************************************************************************)
(* C14: the file writeOFF has written consists of the header line, the     *)
(* line 'numVertices numFaces numEdges', numVertices vertex lines of three *)
(* numbers, numFaces face lines and numEdges edge lines of two numbers, in *)
(* this order; the line of face i holds the corner count of the face, 3    *)
(* when no face-size array is given, and then that many indices, those of  *)
(* the corner-index array from the sum of the corner counts of the faces   *)
(* before i on.                                                            *)
(***************************************************************************)
\* the corner counts given to writeOFF: pFaceSizes, or 3 for every face
OffGivenSizes ==
  IF meshFaceSizesNull THEN [f \in 1..MeshNumFaces |-> 3] ELSE meshFaceSizes
OffLineValues(l) == [t \in 1..Len(l) |-> l[t].v]
OffLineKinds(l) == {l[t].k : t \in 1..Len(l)}

C14_Layout ==
  (offPc = "written" /\ OffUntouched) =>
    /\ Len(offFile) = 2 + MeshNumVertices + MeshNumFaces + MeshNumEdges
    /\ Len(offFile[1]) = 1 /\ offFile[1][1].k = "w"
    /\ OffLineKinds(offFile[2]) = {"d"}
    /\ OffLineValues(offFile[2]) = <<MeshNumVertices, MeshNumFaces, MeshNumEdges>>
    /\ \A v \in 1..MeshNumVertices :
         /\ Len(offFile[2 + v]) = 3
         /\ OffLineKinds(offFile[2 + v]) = {"f"}
    /\ \A f \in 1..MeshNumFaces :
         LET l == offFile[2 + MeshNumVertices + f]
             base == SumSeq(SubSeq(OffGivenSizes, 1, f - 1))
         IN  /\ OffLineKinds(l) = {"d"}
             /\ Len(l) = 1 + OffGivenSizes[f]
             /\ l[1].v = OffGivenSizes[f]
             /\ \A j \in 1..OffGivenSizes[f] :
                  l[1 + j].v = meshFaceVertexIndices[base + j]
    /\ \A e \in 1..MeshNumEdges :
         LET l == offFile[2 + MeshNumVertices + MeshNumFaces + e]
         IN  /\ OffLineKinds(l) = {"d"}
             /\ OffLineValues(l) = <<meshEdges[2 * e - 1], meshEdges[2 * e]>>

\* writeOFF wrote a vertex, two faces of different sizes and an edge
C14_Witness ==
  /\ offPc = "written"
  /\ OffUntouched
  /\ ~meshFaceSizesNull
  /\ MeshNumVertices = 1
  /\ MeshNumFaces = 2
  /\ meshFaceSizes[1] > meshFaceSizes[2]
  /\ MeshNumEdges = 1

\* writeOFF wrote two faces without a face-size array
C14_WitnessNoSizes ==
  /\ offPc = "written"
  /\ OffUntouched
  /\ meshFaceSizesNull
  /\ MeshNumFaces = 2

(***************************************************************************)
(* The calls of the two-call protocol                                      *)
(***************************************************************************)
QryIsQuery(c) ==
  c.fn \in {"mcGetConnectedComponents", "mcGetConnectedComponentData"}

\* a data-fill call hands the engine a buffer
QryIsFill(c) == QryIsQuery(c) /\ c.buffer # -1

\* a size query hands it a null buffer, a zero size and a size pointer
QryIsSizeQuery(c) ==
  QryIsQuery(c) /\ c.buffer = -1 /\ c.bytes = 0 /\ c.sizeOut # -1

(***************************************************************************)
(* C15: in both programs every data-fill call to the engine comes right    *)
(* after a size query (null buffer) for the same component and data kind,  *)
(* that size query returned no error, and the buffer and the size handed   *)
(* to the fill call are exactly the size it reported.                      *)
(***************************************************************************)
C15_TwoCallProtocol ==
  QryIsFill(qryCall) =>
    /\ QryIsSizeQuery(qryPrevCall)
    /\ qryPrevCall.fn = qryCall.fn
    /\ qryPrevCall.kind = qryCall.kind
    /\ qryPrevCall.component = qryCall.component
    /\ qryPrevCall.status = "MC_NO_ERROR"
    /\ qryCall.buffer = qryPrevCall.sizeOut
    /\ qryCall.bytes = qryPrevCall.sizeOut

\* the triangulation of the last component has been fetched into a buffer
\* of MaxElements triangles
C15_Witness ==
  /\ qryProgram = "QuerySeamVerticesSorted"
  /\ QryIsFill(qryCall)
  /\ qryCall.kind = "FACE_TRIANGULATION"
  /\ qryCall.component = MaxComponents - 1
  /\ qryCall.buffer = MaxElements * 12
  /\ qryCall.status = "MC_NO_ERROR"
  /\ qryPc = "release"

\* the other program has fetched the vertices of its first component
C15_WitnessHelloWorld ==
  /\ qryProgram = "HelloWorld"
  /\ QryIsFill(qryCall)
  /\ qryCall.kind = "VERTEX_FLOAT"
  /\ qryCall.component = 0
  /\ qryCall.buffer = 12
  /\ qryPc = "size"

(***************************************************************************)
(* Where the file functions stand                                          *)
(***************************************************************************)
\* writeOFF has returned to its caller
WriteOFFReturned == offPc \notin {"idle", "init"}

\* the process was ended inside readOFF / readOBJ: exit(1), std::abort(),
\* or a fatal signal
OffTerminated == offPc \in {"exited", "crashed"}
ObjTerminated == objPc \in {"aborted", "crashed"}

\* readOFF / readOBJ is no longer running: it returned or the process ended
OffEnded == offPc \in {"returned", "exited", "crashed"}
ObjEnded == objPc \in {"returned", "aborted", "crashed"}

(***************************************************************************)
(* C16: when writeOFF, readOFF or readOBJ has returned to its caller, the   *)
(* file handle it opened is closed; a handle that is still open after the  *)
(* function has stopped belongs to a run that ended the process.           *)
(***************************************************************************)
C16_ScopedHandles ==
  /\ WriteOFFReturned => offWriteHandle = "closed"
  /\ offPc = "returned" => offReadHandle = "closed"
  /\ objPc = "returned" => objHandle = "closed"
  /\ (offReadHandle = "open" /\ OffEnded) => OffTerminated
  /\ (objHandle = "open" /\ ObjEnded) => ObjTerminated

\* readOFF has returned the faces of a file that writeOFF wrote
C16_Witness ==
  /\ offPc = "returned"
  /\ Len(pFaceSizes) = MaxFaces
  /\ offWriteHandle = "closed"
  /\ offReadHandle = "closed"

\* readOBJ has returned the faces of its file
C16_WitnessOBJ ==
  /\ objPc = "returned"
  /\ objNumFaces = MaxFaceLines
  /\ objHandle = "closed"

\* readOFF ended the process with its file open
C16_WitnessFatal ==
  /\ offPc = "exited"
  /\ offReadHandle = "open"
  /\ offWriteHandle = "closed"

(***************************************************************************)
(* C17: when readOBJ has returned, the second '/'-subfield of every corner *)
(* token went to the normal index array if the file has no 'vt ' line at   *)
(* all, and to the texcoord index array if it has one, wherever the        *)
(* 'vt ' lines stand relative to the face lines.                           *)
(***************************************************************************)
\* the corner slots whose token has a second subfield
ObjSecondSubfieldSlots == {c \in 1..Len(ObjCornersOf) : Len(ObjCornersOf[c]) >= 2}

\* the slots of an index array that were stored into
ObjWrittenSlots(arr) == {c \in 1..Len(arr) : arr[c] # <<>>}

C17_SlashShift ==
  objPc = "returned" =>
    IF Len(ObjLinesWith("vt")) > 0
    THEN ObjSecondSubfieldSlots \subseteq ObjWrittenSlots(objFaceVertexTexCoordIndices)
    ELSE /\ ObjWrittenSlots(objFaceVertexTexCoordIndices) = {}
         /\ Len(ObjLinesWith("vn")) > 0 =>
              ObjSecondSubfieldSlots \subseteq ObjWrittenSlots(objFaceVertexNormalIndices)

\* the same for the files whose 'vt ' lines all stand before the first
\* face line
C17_SlashShiftTexCoordsFirst ==
  (\A k \in 1..Len(objFile), f \in 1..Len(objFile) :
      (objFile[k].cmd = "vt" /\ objFile[f].cmd = "f") => k < f)
    => C17_SlashShift

(***************************************************************************)
(* C18: a step of the second face loop that reads a line made of a count n *)
(* and n integers, each with one or more spaces before it, stores the j-th *)
(* integer, as written, at slot (sum of the sizes of the faces before) + j.*)
(***************************************************************************)
\* a line "n i_1 ... i_n"
OffIsFaceLine(l) ==
  /\ l # NoLine
  /\ Len(l) >= 1
  /\ \A t \in 1..Len(l) : l[t].k = "d"
  /\ Len(l) = l[1].v + 1
  /\ \A t \in 2..Len(l) : l[t].sp >= 1

\* the integers after the count
OffLineCorners(l) == [j \in 1..(Len(l) - 1) |-> l[j + 1].v]

\* the second face loop has just handled a line
OffFaceIndicesStep == offPc = "faces2" /\ offPc' = "faces2" /\ i' = i + 1

C18_StoredAsWritten(l) ==
  /\ indexOffset = SumSeq(SubSeq(pFaceSizes, 1, i))
  /\ Len(pFaceVertexIndices') = indexOffset + Len(l) - 1
  /\ \A j \in 1..(Len(l) - 1) :
       pFaceVertexIndices'[indexOffset + j] = OffLineCorners(l)[j]

C18_CornerValues ==
  [][(OffFaceIndicesStep /\ OffIsFaceLine(line')) => C18_StoredAsWritten(line')]_vars

\* the same for the lines that have exactly one space before each integer
C18_CornerValuesSingleSpaced ==
  [][(OffFaceIndicesStep /\ OffIsFaceLine(line') /\ SingleSpaced(<<line'>>))
       => C18_StoredAsWritten(line')]_vars

(***************************************************************************)
(* C19: readOBJ makes three passes, each from the start of the file; the   *)
(* vertex, normal, texcoord and face-size arrays are allocated at the end  *)
(* of the first pass and written in the second pass only, the corner index *)
(* arrays are allocated at the end of the second pass and written in the   *)
(* third pass only, and no step stores into an array that was not          *)
(* allocated.                                                              *)
(***************************************************************************)
ObjAttributeArrays == {"pVertices", "pNormals", "pTexCoords", "pFaceSizes"}
ObjCornerArrays ==
  {"pFaceVertexIndices", "pFaceVertexTexCoordIndices", "pFaceVertexNormalIndices"}

\* the array a subfield with faceVertexDataIt = t is stored into
ObjTargetArray(t) ==
  IF t = 0 THEN "pFaceVertexIndices"
  ELSE IF t = 1 THEN "pFaceVertexTexCoordIndices"
  ELSE "pFaceVertexNormalIndices"

\* the arrays the corner tokens of the line l are stored into
ObjStoreTargets(l) ==
  {ObjTargetArray(t) :
     t \in UNION {{x \in {SubfieldTargets(Len(l.corners[j]), 0, nTexCoords > 0)[k] :
                            k \in 1..Len(l.corners[j])} : x <= 2} :
                    j \in 1..Len(l.corners)}}

\* this step is the third pass handling a face line
ObjCornerStep == objPc = "scan" /\ passIterator = 2 /\ nFaces' = nFaces + 1

C19_PassStep ==
  \* the passes follow one another, each from the start of the file
  /\ passIterator' \in {passIterator, passIterator + 1}
  /\ (passIterator' # passIterator /\ passIterator' < 3) => objPos' = 0
  /\ objPc' = "returned" => passIterator' = 3
  \* allocation
  /\ (objAllocated' \ objAllocated) \cap ObjAttributeArrays # {}
       => (passIterator = 0 /\ passIterator' = 1)
  /\ (objAllocated' \ objAllocated) \cap ObjCornerArrays # {}
       => (passIterator = 1 /\ passIterator' = 2)
  \* writes
  /\ (\/ objVertices'.filled # objVertices.filled
      \/ objNormals'.filled # objNormals.filled
      \/ objTexCoords'.filled # objTexCoords.filled
      \/ ObjWrittenSlots(objFaceSizes') # ObjWrittenSlots(objFaceSizes))
       => (passIterator = 1 /\ passIterator' = 1)
  /\ (\/ ObjWrittenSlots(objFaceVertexIndices') # ObjWrittenSlots(objFaceVertexIndices)
      \/ ObjWrittenSlots(objFaceVertexTexCoordIndices')
           # ObjWrittenSlots(objFaceVertexTexCoordIndices)
      \/ ObjWrittenSlots(objFaceVertexNormalIndices')
           # ObjWrittenSlots(objFaceVertexNormalIndices))
       => (passIterator = 2 /\ passIterator' = 2)
  \* no store into an array that was not allocated
  /\ ObjCornerStep => ObjStoreTargets(ObjCurrentLine) \subseteq objAllocated

C19_PassOrdering == [][C19_PassStep]_vars

\* the same without the last conjunct, for the files whose corner tokens
\* name only kinds of data the file has
C19_PassStepOrder ==
  /\ passIterator' \in {passIterator, passIterator + 1}
  /\ (passIterator' # passIterator /\ passIterator' < 3) => objPos' = 0
  /\ objPc' = "returned" => passIterator' = 3
  /\ (objAllocated' \ objAllocated) \cap ObjAttributeArrays # {}
       => (passIterator = 0 /\ passIterator' = 1)
  /\ (objAllocated' \ objAllocated) \cap ObjCornerArrays # {}
       => (passIterator = 1 /\ passIterator' = 2)
  /\ (\/ objVertices'.filled # objVertices.filled
      \/ objNormals'.filled # objNormals.filled
      \/ objTexCoords'.filled # objTexCoords.filled
      \/ ObjWrittenSlots(objFaceSizes') # ObjWrittenSlots(objFaceSizes))
       => (passIterator = 1 /\ passIterator' = 1)
  /\ (\/ ObjWrittenSlots(objFaceVertexIndices') # ObjWrittenSlots(objFaceVertexIndices)
      \/ ObjWrittenSlots(objFaceVertexTexCoordIndices')
           # ObjWrittenSlots(objFaceVertexTexCoordIndices)
      \/ ObjWrittenSlots(objFaceVertexNormalIndices')
           # ObjWrittenSlots(objFaceVertexNormalIndices))
       => (passIterator = 2 /\ passIterator' = 2)

C19_PassOrderingOnly == [][C19_PassStepOrder]_vars

(***************************************************************************)
(* C20: in every pass, the step that reads an empty line, a line that      *)
(* begins with '#' or a line that begins with none of 'v ', 'vn ', 'vt ',  *)
(* 'f ' changes no counter and no output array and raises no error.        *)
(***************************************************************************)
\* readOBJ is about to read a line that is to be skipped
ObjAtSkippedLine ==
  /\ objPc = "scan"
  /\ objPos < Len(objFile)
  /\ objFile[objPos + 1].cmd \in {"blank", "#", "other"}

C20_SkippedLines ==
  [][ObjAtSkippedLine =>
       /\ objPos' = objPos + 1
       /\ UNCHANGED <<passIterator, nFaceIndices, objCountVars, iterOfFace,
                      objOutVars, objWroteOutside, objError, objPc>>]_vars

\* the third pass has skipped an empty line that follows a face line
C20_Witness ==
  /\ objPc = "scan"
  /\ passIterator = 2
  /\ objPos >= 2
  /\ objFile[objPos].cmd = "blank"
  /\ faceIndicesCounter = MaxCorners
  /\ ObjWrittenSlots(objFaceVertexIndices) = 1..MaxCorners

\* the first pass has skipped a comment and an unrecognised command
C20_WitnessFirstPass ==
  /\ objPc = "scan"
  /\ passIterator = 0
  /\ objPos = 3
  /\ objFile[2].cmd = "#"
  /\ objFile[3].cmd = "other"
  /\ nVertices = 1

(***************************************************************************)
(* C21: in the third pass readOBJ stores a texcoord index only into an     *)
(* allocated texcoord index array and a normal index only into an          *)
(* allocated normal index array, and every store goes to a slot below the  *)
(* allocated corner total, whatever the file.                              *)
(***************************************************************************)
C21_OnlyAllocated == passIterator >= 2 => ~objWroteOutside

\* the same for the files with "\n" line ends whose corner tokens have a
\* second subfield only if the file has normals, and 'vt ' lines, if any,
\* before the first face line
C21_OnlyAllocatedPlainFiles ==
  (/\ objEol = "LF"
   /\ (ObjSecondSubfieldSlots # {} => Len(ObjLinesWith("vn")) > 0)
   /\ \A k \in 1..Len(objFile), f \in 1..Len(objFile) :
        (objFile[k].cmd \in {"vt", "vn"} /\ objFile[f].cmd = "f") => k < f)
    => C21_OnlyAllocated

(***************************************************************************)
(* C22: readOFF ends on every file, by returning or by a fatal error: it   *)
(* is never caught for ever in the loop of readLine, also when the file    *)
(* ends with a blank or comment line before the declared vertex and face   *)
(* lines have been read.                                                   *)
(***************************************************************************)
C22_Terminates == offPc # "hung"

\* the same for the files that have all the lines their counts declare
C22_TerminatesWholeFiles ==
  (~offTruncated /\ offPc \notin {"init", "written"}) => C22_Terminates

(***************************************************************************)
(* C23: on a file whose face lines have no corner token at all (or that    *)
(* has no face line) and whose second pass runs to its end, readOBJ aborts *)
(* with "invalid face index count" at the end of the second pass: the      *)
(* third pass is never started and no corner index array is allocated.     *)
(***************************************************************************)
\* the file has no corner token
ObjZeroCorners == Len(ObjCornersOf) = 0

\* no 'v ', 'vn ' or 'vt ' line of the file stops the second pass
ObjSecondPassRuns ==
  \A k \in 1..Len(objFile) :
    objFile[k].cmd \in {"v", "vn", "vt"} =>
      objFile[k].fields >= (IF objFile[k].cmd = "vt" THEN 2 ELSE 3)

C23_NoFaces ==
  (ObjZeroCorners /\ ObjSecondPassRuns) =>
    /\ passIterator <= 1
    /\ objAllocated \cap ObjCornerArrays = {}
    /\ objFaceVertexIndices = <<>>
    /\ objPc \in {"scan", "aborted"}
    /\ objPc = "aborted" =>
         (passIterator = 1 /\ objError = "error: invalid face index count")

\* readOBJ aborted on a file with vertices and a face line without corners
C23_Witness ==
  /\ objPc = "aborted"
  /\ objError = "error: invalid face index count"
  /\ objNumVertices > 0
  /\ objNumFaces > 0
  /\ ObjZeroCorners

\* readOBJ aborted on a file without any face line
C23_WitnessNoFaceLine ==
  /\ objPc = "aborted"
  /\ objError = "error: invalid face index count"
  /\ objNumVertices > 0
  /\ objNumFaces = 0

(***************************************************************************)
(* The order of the engine calls                                           *)
(***************************************************************************)
\* the positions of the calls of a function in the list of calls
QryCallsOf(fn) == {k \in 1..Len(qryCalls) : qryCalls[k].fn = fn}

\* the positions of the calls of a function that returned no error
QryDoneOf(fn) ==
  {k \in QryCallsOf(fn) : qryCalls[k].status = "MC_NO_ERROR"}

\* the queries about connected components
QryComponentQueries ==
  QryCallsOf("mcGetConnectedComponents")
    \cup QryCallsOf("mcGetConnectedComponentData")

\* main has returned 0
QryReturnedZero == qryPc = "returned" /\ qryExit = 0

(***************************************************************************)
(* C24: in both programs mcCreateContext is the first engine call and      *)
(* every other call comes after it has succeeded; no call comes after      *)
(* mcReleaseContext; a connected-component query comes after a successful  *)
(* mcDispatch; mcReleaseContext comes after mcReleaseConnectedComponents;  *)
(* and when main has returned 0 the connected components and then the      *)
(* context have been released, each by exactly one successful call.        *)
(***************************************************************************)
C24_CallOrdering ==
  /\ QryCallsOf("mcCreateContext") \subseteq {1}
  /\ Len(qryCalls) >= 1 => qryCalls[1].fn = "mcCreateContext"
  /\ Len(qryCalls) >= 2 => 1 \in QryDoneOf("mcCreateContext")
  /\ \A k \in QryCallsOf("mcReleaseContext") : k = Len(qryCalls)
  /\ \A k \in QryComponentQueries :
       \E j \in QryDoneOf("mcDispatch") : j < k
  /\ \A k \in QryCallsOf("mcReleaseContext") :
       \E j \in QryCallsOf("mcReleaseConnectedComponents") : j < k
  /\ QryReturnedZero =>
       /\ Cardinality(QryCallsOf("mcReleaseConnectedComponents")) = 1
       /\ Cardinality(QryCallsOf("mcReleaseContext")) = 1
       /\ QryDoneOf("mcReleaseConnectedComponents") = {Len(qryCalls) - 1}
       /\ QryDoneOf("mcReleaseContext") = {Len(qryCalls)}

\* the program with the debug configuration has returned 0 after the data
\* of every component was fetched
C24_Witness ==
  /\ qryProgram = "QuerySeamVerticesSorted"
  /\ QryReturnedZero
  /\ QryCallsOf("mcDebugMessageControl") # {}
  /\ numConnComps = MaxComponents
  /\ Cardinality(QryCallsOf("mcGetConnectedComponentData"))
       = 2 * 3 * MaxComponents

\* the other program has returned 0
C24_WitnessHelloWorld ==
  /\ qryProgram = "HelloWorld"
  /\ QryReturnedZero
  /\ Len(qryCalls) = 6 + 2 * 3 * numConnComps

\* the program left through exit(0) with the context still alive
C24_WitnessExitZero ==
  /\ qryPc = "exited"
  /\ qryExit = 0
  /\ QryCallsOf("mcReleaseContext") = {}

====
